---- MODULE Spec2Model ----
(***************************************************************************)
(* A model of the synchronisation subsystem of sysml2pytest:               *)
(*   sync/fingerprint.py  content, metadata and structure hashes           *)
(*   sync/detector.py     SyncDetector.detect_changes and its severity     *)
(*   sync/state.py        SyncStateManager and the persisted state document*)
(*   sync/parser.py       TestFileParser                                   *)
(*   sync/updater.py      TestUpdater                                      *)
(*                                                                         *)
(* Conventions.  An Optional value is a sequence: None is <<>> and a       *)
(* present value v is <<v>>.  A SHA-256 digest is modelled by the          *)
(* canonical JSON document it is computed from (json.dumps with            *)
(* sort_keys=True is a function of the dict as a record and of the lists   *)
(* as sequences), so two digests are equal exactly when the hashed         *)
(* documents are equal.                                                    *)
(***************************************************************************)
EXTENDS Integers, Sequences, FiniteSets, TLC

VARIABLES
    old_requirements,   \* detect_changes argument: the previous requirement list
    new_requirements,   \* detect_changes argument: the new requirement list
    report,             \* None, or <<SyncReport>> returned by detect_changes
    fp_input,           \* <<R, R2>>: a requirement and a reordering of its
                        \* lists, or a changed copy of it; or <<old, new>>:
                        \* two fingerprints to compare
    fp_result,          \* None, or <<hash(R), hash(R2)>>, or the fingerprints
                        \* <<fp(R), fp(R2)>>; or <<comparison>>: the dict
                        \* returned by compare_fingerprints
    state_file,         \* the sync_state.json of the state directory
    managers,           \* per SyncStateManager: its self.state, None or <<SyncState>>
    test_file,          \* the test file on disk: [exists, lines]
    backups,            \* backup directory: backup timestamp -> None or <<lines>>
    clock,              \* datetime.now(), in whole seconds
    update_result,      \* None, or <<UpdateResult>> of the last update
    new_file,           \* None, or <<[path, lines]>>: the file written beside
                        \* the test file by a side-by-side update
    batch_results,      \* None, or <<[updates, strategy, create_backups,
                        \* results]>>: the last call of update_multiple_tests
                        \* and the list of UpdateResult it returned
    parse_result        \* None, or <<tests>>: the list of ParsedTest returned
                        \* by TestFileParser.parse_file for the test file

detect_vars == <<old_requirements, new_requirements, report>>
fp_vars == <<fp_input, fp_result>>
state_vars == <<state_file, managers>>
update_vars == <<test_file, backups, clock, update_result, new_file,
                 batch_results, parse_result>>
vars == <<old_requirements, new_requirements, report, fp_input, fp_result,
          state_file, managers, test_file, backups, clock, update_result,
          new_file, batch_results, parse_result>>

----------------------------------------------------------------------------
(* Optional values *)

None == <<>>

Some(v) == <<v>>

\* Python's `x or ""` on an Optional[str]
OrEmpty(o) == IF o = None THEN "" ELSE o[1]

----------------------------------------------------------------------------
(* Bounds of the model *)

\* longest attribute list and longest constraint list of the requirement
\* whose hash is computed under SpecHash
MaxAttrs == 2

MaxCons == 2

\* most attributes and constraints together of a requirement compared
\* under SpecSeverity
MaxItems == 1

\* most requirements in the old and the new list together under SpecDetect
MaxTotalReqs == 4

\* largest sync_count a manager counts up to under SpecState
MaxSync == 2

\* most custom regions of a test block of the test file at the start
MaxRegions == 2

\* most lines in the custom regions of such a block, all together
MaxCustomLines == 2

\* largest new_version an update is asked for
MaxVersion == 2

\* seconds the clock counts up to
MaxClock == 1

MaxBackupCount == 1

----------------------------------------------------------------------------
(* String order.  Python compares str by code point; the strings that are *)
(* ever used as sort keys are listed here in that order.                  *)

StrOrder == <<"", "N1", "N2", "R1", "R2", "assume", "e1", "e2", "h", "require", "w">>

Rank(s) == CHOOSE i \in DOMAIN StrOrder : StrOrder[i] = s

\* list.insert keeping the list sorted and the sort stable: the keyed item x
\* goes before the first item whose key is strictly greater
RECURSIVE InsertSorted(_, _)
InsertSorted(s, x) ==
    IF s = <<>> THEN <<x>>
    ELSE IF x.key < s[1].key THEN <<x>> \o s
    ELSE <<s[1]>> \o InsertSorted(Tail(s), x)

RECURSIVE SortKeyed(_)
SortKeyed(s) ==
    IF s = <<>> THEN <<>>
    ELSE InsertSorted(SortKeyed(SubSeq(s, 1, Len(s) - 1)), s[Len(s)])

\* sorted(seq, key=Key): stable, ascending; Key gives a number
SortedBy(s, Key(_)) ==
    LET keyed == [i \in DOMAIN s |-> [key |-> Key(s[i]), val |-> s[i]]]
        sorted == SortKeyed(keyed)
    IN  [i \in DOMAIN sorted |-> sorted[i].val]

Map(s, F(_)) == [i \in DOMAIN s |-> F(s[i])]

SeqsUpTo(S, n) == UNION {[1..k -> S] : k \in 0..n}

----------------------------------------------------------------------------
(* sync/fingerprint.py *)

\* the dict hashed by compute_requirement_hash
extract_semantic_content(requirement) ==
    LET attr(a) == [name |-> a.name, type |-> a.type,
                    min_value |-> a.min_value, max_value |-> a.max_value,
                    description |-> OrEmpty(a.description)]
        attrKey(x) == Rank(x.name)
        con(c) == [kind |-> c.kind, expression |-> c.expression,
                   description |-> OrEmpty(c.description)]
        conKey(x) == Rank(x.kind) * (Len(StrOrder) + 1) + Rank(x.expression)
    IN  [name |-> requirement.name,
         documentation |-> OrEmpty(requirement.documentation),
         attributes |-> SortedBy(Map(requirement.attributes, attr), attrKey),
         constraints |-> SortedBy(Map(requirement.constraints, con), conKey),
         nested_requirements |-> SortedBy(requirement.nested_requirements, Rank)]

compute_requirement_hash(requirement) ==
    extract_semantic_content(requirement)

compute_metadata_hash(requirement) ==
    [name |-> requirement.name,
     documentation |-> OrEmpty(requirement.documentation)]

\* compute_structure_hash that hashes the name with the structure
compute_structure_hash_with_name(requirement) ==
    [name |-> requirement.name, attributes |-> requirement.attributes,
     constraints |-> requirement.constraints]

compute_structure_hash(requirement) ==
    LET attr(a) == [name |-> a.name, type |-> a.type,
                    min_value |-> a.min_value, max_value |-> a.max_value]
        attrKey(x) == Rank(x.name)
        con(c) == [kind |-> c.kind, expression |-> c.expression]
        conKey(x) == Rank(x.kind) * (Len(StrOrder) + 1) + Rank(x.expression)
    IN  [attributes |-> SortedBy(Map(requirement.attributes, attr), attrKey),
         constraints |-> SortedBy(Map(requirement.constraints, con), conKey)]

\* RequirementFingerprint; version is the default 1 and the timestamp, which
\* no comparison reads, is left out
create_fingerprint(requirement) ==
    [requirement_id |-> requirement.id,
     content_hash |-> compute_requirement_hash(requirement),
     metadata_hash |-> compute_metadata_hash(requirement),
     structure_hash |-> compute_structure_hash(requirement)]

\* compare_fingerprints with metadata_only taken from the wrong comparison
compare_fingerprints_wrong_flag(old, new) ==
    [content_changed |-> old.content_hash # new.content_hash,
     metadata_only |-> (old.content_hash # new.content_hash
                        /\ old.structure_hash # new.structure_hash),
     structure_changed |-> old.structure_hash # new.structure_hash]

\* compare_fingerprints that reads the content change off the structure
compare_fingerprints_content_is_structure(old, new) ==
    [content_changed |-> old.structure_hash # new.structure_hash,
     metadata_only |-> (old.content_hash # new.content_hash
                        /\ old.structure_hash = new.structure_hash),
     structure_changed |-> old.structure_hash # new.structure_hash]

compare_fingerprints(old, new) ==
    [content_changed |-> old.content_hash # new.content_hash,
     metadata_only |-> (old.content_hash # new.content_hash
                        /\ old.structure_hash = new.structure_hash),
     structure_changed |-> old.structure_hash # new.structure_hash]

----------------------------------------------------------------------------
(* sync/detector.py *)

\* {r.metadata.id: r for r in requirements}: a later entry replaces an
\* earlier one with the same key
ById(requirements) ==
    LET keys == {requirements[i].id : i \in DOMAIN requirements}
        last(k) == CHOOSE i \in DOMAIN requirements :
                      /\ requirements[i].id = k
                      /\ \A j \in DOMAIN requirements :
                            requirements[j].id = k => j <= i
    IN  [k \in keys |-> requirements[last(k)]]

\* {req.metadata.id: create_fingerprint(req) for req in requirements}
Fingerprints(requirements) ==
    LET by == ById(requirements)
    IN  [k \in DOMAIN by |-> create_fingerprint(by[k])]

\* sorted(ids) of a set of str
RECURSIVE SortedIds(_)
SortedIds(ids) ==
    IF ids = {} THEN <<>>
    ELSE LET m == CHOOSE x \in ids : \A y \in ids : Rank(x) <= Rank(y)
         IN  <<m>> \o SortedIds(ids \ {m})

\* _determine_severity without the comparison of the attribute-name sets
determine_severity_no_attr_check(old_req, new_req, comparison) ==
    IF comparison.metadata_only THEN "minor"
    ELSE IF comparison.structure_changed THEN
        IF Len(old_req.constraints) # Len(new_req.constraints) THEN "major"
        ELSE "moderate"
    ELSE "moderate"

\* _determine_severity without the comparison of the constraint counts
determine_severity_no_count_check(old_req, new_req, comparison) ==
    IF comparison.metadata_only THEN "minor"
    ELSE IF comparison.structure_changed THEN
        LET old_attrs == {old_req.attributes[i].name : i \in DOMAIN old_req.attributes}
            new_attrs == {new_req.attributes[i].name : i \in DOMAIN new_req.attributes}
        IN  IF old_attrs # new_attrs THEN "major" ELSE "moderate"
    ELSE "moderate"

determine_severity(old_req, new_req, comparison) ==
    IF comparison.metadata_only THEN "minor"
    ELSE IF comparison.structure_changed THEN
        LET old_attrs == {old_req.attributes[i].name : i \in DOMAIN old_req.attributes}
            new_attrs == {new_req.attributes[i].name : i \in DOMAIN new_req.attributes}
        IN  IF old_attrs # new_attrs THEN "major"
            ELSE IF Len(old_req.constraints) # Len(new_req.constraints) THEN "major"
            ELSE "moderate"
    ELSE "moderate"

\* _find_added grading a new requirement by its content: major only when it
\* has attributes or constraints
find_added_graded(added_ids, new_by_id, new_fingerprints) ==
    LET ids == SortedIds(added_ids)
    IN  [i \in DOMAIN ids |->
            [requirement_id |-> ids[i], change_type |-> "added",
             severity |-> IF new_by_id[ids[i]].attributes = <<>>
                             /\ new_by_id[ids[i]].constraints = <<>>
                          THEN "minor" ELSE "major"]]

find_added(added_ids, new_by_id, new_fingerprints) ==
    LET ids == SortedIds(added_ids)
    IN  [i \in DOMAIN ids |->
            [requirement_id |-> ids[i], change_type |-> "added",
             severity |-> "major"]]

find_deleted(deleted_ids, old_by_id, old_fingerprints) ==
    LET ids == SortedIds(deleted_ids)
    IN  [i \in DOMAIN ids |->
            [requirement_id |-> ids[i], change_type |-> "deleted",
             severity |-> "major"]]

find_modified(common_ids, old_by_id, new_by_id, old_fingerprints, new_fingerprints) ==
    LET changed(k) == old_fingerprints[k].content_hash # new_fingerprints[k].content_hash
        ids == SelectSeq(SortedIds(common_ids), changed)
    IN  [i \in DOMAIN ids |->
            [requirement_id |-> ids[i], change_type |-> "modified",
             severity |-> determine_severity(
                 old_by_id[ids[i]], new_by_id[ids[i]],
                 compare_fingerprints(old_fingerprints[ids[i]],
                                      new_fingerprints[ids[i]]))]]

\* _find_unchanged without the comparison of the content hashes
find_unchanged_no_hash_check(common_ids, old_by_id, new_by_id, old_fingerprints, new_fingerprints) ==
    LET ids == SortedIds(common_ids)
    IN  [i \in DOMAIN ids |->
            [requirement_id |-> ids[i], change_type |-> "unchanged",
             severity |-> "none"]]

find_unchanged(common_ids, old_by_id, new_by_id, old_fingerprints, new_fingerprints) ==
    LET same(k) == old_fingerprints[k].content_hash = new_fingerprints[k].content_hash
        ids == SelectSeq(SortedIds(common_ids), same)
    IN  [i \in DOMAIN ids |->
            [requirement_id |-> ids[i], change_type |-> "unchanged",
             severity |-> "none"]]

\* SyncDetector.detect_changes(old, new) with no cached fingerprints
detect_changes(old, new) ==
    LET old_by_id == ById(old)
        new_by_id == ById(new)
        old_fingerprints == Fingerprints(old)
        new_fingerprints == Fingerprints(new)
        old_ids == DOMAIN old_by_id
        new_ids == DOMAIN new_by_id
    IN  [added |-> find_added(new_ids \ old_ids, new_by_id, new_fingerprints),
         deleted |-> find_deleted(old_ids \ new_ids, old_by_id, old_fingerprints),
         modified |-> find_modified(old_ids \cap new_ids, old_by_id, new_by_id,
                                    old_fingerprints, new_fingerprints),
         unchanged |-> find_unchanged(old_ids \cap new_ids, old_by_id, new_by_id,
                                      old_fingerprints, new_fingerprints)]

\* SyncReport.total_requirements
total_requirements(r) ==
    Len(r.added) + Len(r.deleted) + Len(r.modified) + Len(r.unchanged)

----------------------------------------------------------------------------
(* Inputs.  extractor/models.py: Requirement, RequirementAttribute,        *)
(* Constraint.  The id of a requirement that has none is "" (extractor.py  *)
(* reads req_data.get("@id", "")).                                         *)

AttrPool ==
    { [name |-> "h", type |-> "Integer", min_value |-> Some(150),
       max_value |-> Some(200), description |-> None],
      [name |-> "h", type |-> "Integer", min_value |-> Some(140),
       max_value |-> Some(210), description |-> None],
      [name |-> "h", type |-> "Integer", min_value |-> Some(150),
       max_value |-> Some(200), description |-> Some("d")],
      [name |-> "w", type |-> "Real", min_value |-> None,
       max_value |-> None, description |-> None] }

ConPool ==
    { [kind |-> "require", expression |-> "e1", description |-> None],
      [kind |-> "require", expression |-> "e1", description |-> Some("d")],
      [kind |-> "assume", expression |-> "e2", description |-> None] }

Names == {"A", "B"}

Docs == {None, Some(""), Some("d")}

NestedLists == {<<>>, <<"N1">>}

Requirement(id, name, doc, attrs, cons, nested) ==
    [id |-> id, name |-> name, documentation |-> doc, attributes |-> attrs,
     constraints |-> cons, nested_requirements |-> nested]

\* requirements with at most na attributes, nc constraints and n of both
ReqsWith(ids, na, nc, n) ==
    { r \in { Requirement(id, name, doc, attrs, cons, nested) :
                id \in ids, name \in Names, doc \in Docs,
                attrs \in SeqsUpTo(AttrPool, na),
                cons \in SeqsUpTo(ConPool, nc),
                nested \in NestedLists } :
        Len(r.attributes) + Len(r.constraints) <= n }

\* every reordering of a list
Reorderings(s) ==
    { [i \in DOMAIN s |-> s[p[i]]] : p \in Permutations(DOMAIN s) }

\* the requirements compared under SpecDetect: three ids, one of them the
\* missing id, and two names
DetectPool ==
    { Requirement(id, name, None, <<>>, <<>>, <<>>) :
        id \in {"", "R1", "R2"}, name \in Names }

\* the requirements compared under SpecSeverity
SeverityPool == ReqsWith({"R1"}, MaxItems, MaxItems, MaxItems)

\* the requirements hashed under SpecHash
HashPool == ReqsWith({"R1"}, MaxAttrs, MaxCons, MaxAttrs + MaxCons)

----------------------------------------------------------------------------
(* sync/state.py *)

\* the SyncStateManager objects that work on the one state directory
Managers == {"m1", "m2"}

\* the requirement ids and the test files the managers are told about
TrackedIds == {"R1", "R2"}

TestFiles == {"test_a.py"}

\* a datetime, and its ISO text; datetime.now() is modelled by one instant:
\* the model keeps that a timestamp is set, not its value
Now == [datetime |-> "now"]

isoformat(d) == d.datetime

fromisoformat(text) == [datetime |-> text]

\* pathlib.Path(text) and str(path); Path("") is Path(".")
Path(text) == [path |-> IF text = "" THEN "." ELSE text]

PathStr(p) == p.path

\* SyncState()
FreshState ==
    [last_sync |-> None, requirements |-> <<>>, test_files |-> <<>>,
     sync_count |-> 0]

\* a finite dict as a function; <<>> is the empty dict
DictSet(d, k, v) == [x \in DOMAIN d \cup {k} |-> IF x = k THEN v ELSE d[x]]

DictWithout(d, ks) == [x \in DOMAIN d \ ks |-> d[x]]

\* RequirementFingerprint.to_dict and from_dict (fingerprint.py)
RequirementFingerprint_to_dict(fp) ==
    [requirement_id |-> fp.requirement_id, content_hash |-> fp.content_hash,
     version |-> fp.version, timestamp |-> isoformat(fp.timestamp),
     metadata_hash |-> fp.metadata_hash, structure_hash |-> fp.structure_hash]

RequirementFingerprint_from_dict(data) ==
    [requirement_id |-> data.requirement_id, content_hash |-> data.content_hash,
     version |-> data.version, timestamp |-> fromisoformat(data.timestamp),
     metadata_hash |-> data.metadata_hash, structure_hash |-> data.structure_hash]

\* RequirementState.from_dict that reads has_custom_code as its default
RequirementState_from_dict_flag_lost(data) ==
    [requirement_id |-> data.requirement_id, content_hash |-> data.content_hash,
     version |-> data.version,
     test_file |-> IF data.test_file = None \/ data.test_file = Some("")
                   THEN None ELSE Some(Path(data.test_file[1])),
     last_updated |-> fromisoformat(data.last_updated),
     has_custom_code |-> FALSE,
     fingerprint |-> IF data.fingerprint = None THEN None
                     ELSE Some(RequirementFingerprint_from_dict(
                                   data.fingerprint[1]))]

\* RequirementState.to_dict; a Path and a fingerprint are always true, so
\* test_file and fingerprint are written whenever they are not None
RequirementState_to_dict(rs) ==
    [requirement_id |-> rs.requirement_id, content_hash |-> rs.content_hash,
     version |-> rs.version,
     test_file |-> IF rs.test_file = None THEN None
                   ELSE Some(PathStr(rs.test_file[1])),
     last_updated |-> isoformat(rs.last_updated),
     has_custom_code |-> rs.has_custom_code,
     fingerprint |-> IF rs.fingerprint = None THEN None
                     ELSE Some(RequirementFingerprint_to_dict(
                                   rs.fingerprint[1]))]

\* RequirementState.from_dict; an empty test_file text reads as None
RequirementState_from_dict(data) ==
    [requirement_id |-> data.requirement_id, content_hash |-> data.content_hash,
     version |-> data.version,
     test_file |-> IF data.test_file = None \/ data.test_file = Some("")
                   THEN None ELSE Some(Path(data.test_file[1])),
     last_updated |-> fromisoformat(data.last_updated),
     has_custom_code |-> data.has_custom_code,
     fingerprint |-> IF data.fingerprint = None THEN None
                     ELSE Some(RequirementFingerprint_from_dict(
                                   data.fingerprint[1]))]

TestFileState_to_dict(ts) ==
    [file_path |-> PathStr(ts.file_path), requirements |-> ts.requirements,
     last_generated |-> isoformat(ts.last_generated),
     has_custom_code |-> ts.has_custom_code, backup_count |-> ts.backup_count]

TestFileState_from_dict(data) ==
    [file_path |-> Path(data.file_path), requirements |-> data.requirements,
     last_generated |-> fromisoformat(data.last_generated),
     has_custom_code |-> data.has_custom_code, backup_count |-> data.backup_count]

SyncState_to_dict(st) ==
    [last_sync |-> IF st.last_sync = None THEN None
                   ELSE Some(isoformat(st.last_sync[1])),
     sync_count |-> st.sync_count,
     requirements |-> [k \in DOMAIN st.requirements |->
                          RequirementState_to_dict(st.requirements[k])],
     test_files |-> [k \in DOMAIN st.test_files |->
                        TestFileState_to_dict(st.test_files[k])]]

\* SyncState.from_dict; an empty last_sync text reads as None
SyncState_from_dict(data) ==
    [last_sync |-> IF data.last_sync = None \/ data.last_sync = Some("")
                   THEN None ELSE Some(fromisoformat(data.last_sync[1])),
     sync_count |-> data.sync_count,
     requirements |-> [k \in DOMAIN data.requirements |->
                          RequirementState_from_dict(data.requirements[k])],
     test_files |-> [k \in DOMAIN data.test_files |->
                        TestFileState_from_dict(data.test_files[k])]]

\* the state file: missing, unreadable as a SyncState, or a saved document
AbsentFile == [exists |-> FALSE, valid |-> FALSE, doc |-> SyncState_to_dict(FreshState)]

CorruptFile == [exists |-> TRUE, valid |-> FALSE, doc |-> SyncState_to_dict(FreshState)]

SavedFile(st) == [exists |-> TRUE, valid |-> TRUE, doc |-> SyncState_to_dict(st)]

\* a load that returns SyncState() whatever the file holds
Loaded_always_fresh == FreshState

\* what load leaves in self.state
Loaded ==
    IF state_file.exists /\ state_file.valid
    THEN SyncState_from_dict(state_file.doc)
    ELSE FreshState

\* self.state, or the SyncState() an operation creates when it is None
StateOrNew(m) == IF managers[m] = None THEN FreshState ELSE managers[m][1]

StateIdle ==
    /\ state_file = AbsentFile
    /\ managers = [m \in Managers |-> None]

\* SyncStateManager.initialize
Initialize(m) ==
    /\ IF ~state_file.exists
       THEN /\ managers' = [managers EXCEPT ![m] = Some(FreshState)]
            /\ state_file' = SavedFile(FreshState)
       ELSE /\ managers' = [managers EXCEPT ![m] = Some(Loaded)]
            /\ UNCHANGED state_file
    /\ UNCHANGED <<detect_vars, fp_vars, update_vars>>

\* SyncStateManager.load
Load(m) ==
    /\ managers' = [managers EXCEPT ![m] = Some(Loaded)]
    /\ UNCHANGED <<state_file, detect_vars, fp_vars, update_vars>>

\* SyncStateManager.save: nothing is written when self.state is None
Save(m) ==
    /\ state_file' = IF managers[m] = None THEN state_file
                     ELSE SavedFile(managers[m][1])
    /\ UNCHANGED <<managers, detect_vars, fp_vars, update_vars>>

\* SyncStateManager.update_requirement
UpdateRequirement(m, requirement_id, content_hash, version) ==
    LET st == StateOrNew(m)
        req_state == [requirement_id |-> requirement_id,
                      content_hash |-> content_hash, version |-> version,
                      test_file |-> None, last_updated |-> Now,
                      has_custom_code |-> FALSE, fingerprint |-> None]
    IN  /\ managers' = [managers EXCEPT ![m] = Some(
                [st EXCEPT !.requirements =
                    DictSet(st.requirements, requirement_id, req_state)])]
        /\ UNCHANGED <<state_file, detect_vars, fp_vars, update_vars>>

\* SyncStateManager.update_test_file
UpdateTestFile(m, file_path, requirements) ==
    LET st == StateOrNew(m)
        test_state == [file_path |-> Path(file_path), requirements |-> requirements,
                       last_generated |-> Now, has_custom_code |-> FALSE,
                       backup_count |-> 0]
    IN  /\ managers' = [managers EXCEPT ![m] = Some(
                [st EXCEPT !.test_files =
                    DictSet(st.test_files, PathStr(Path(file_path)), test_state)])]
        /\ UNCHANGED <<state_file, detect_vars, fp_vars, update_vars>>

\* mark_synced that writes the count of this sync instead of adding to it
MarkSynced_count_reset(m) ==
    LET st == StateOrNew(m)
        marked == [st EXCEPT !.last_sync = Some(Now), !.sync_count = 1]
    IN  /\ st.sync_count < MaxSync
        /\ managers' = [managers EXCEPT ![m] = Some(marked)]
        /\ state_file' = SavedFile(marked)
        /\ UNCHANGED <<detect_vars, fp_vars, update_vars>>

\* SyncStateManager.mark_synced
MarkSynced(m) ==
    LET st == StateOrNew(m)
        marked == [st EXCEPT !.last_sync = Some(Now),
                             !.sync_count = st.sync_count + 1]
    IN  /\ st.sync_count < MaxSync
        /\ managers' = [managers EXCEPT ![m] = Some(marked)]
        /\ state_file' = SavedFile(marked)
        /\ UNCHANGED <<detect_vars, fp_vars, update_vars>>

\* SyncStateManager.get_stale_requirements
get_stale_requirements(m, current_ids) ==
    IF managers[m] = None THEN {}
    ELSE DOMAIN managers[m][1].requirements \ current_ids

\* cleanup_stale_requirements that removes the entries and saves nothing
CleanupStale_not_saved(m, current_ids) ==
    LET stale == get_stale_requirements(m, current_ids)
    IN  IF stale = {}
        THEN UNCHANGED vars
        ELSE LET cleaned == [managers[m][1] EXCEPT !.requirements =
                                DictWithout(managers[m][1].requirements, stale)]
             IN  /\ managers' = [managers EXCEPT ![m] = Some(cleaned)]
                 /\ UNCHANGED <<state_file, detect_vars, fp_vars, update_vars>>

\* SyncStateManager.cleanup_stale_requirements
CleanupStale(m, current_ids) ==
    LET stale == get_stale_requirements(m, current_ids)
    IN  IF stale = {}
        THEN UNCHANGED vars
        ELSE LET cleaned == [managers[m][1] EXCEPT !.requirements =
                                DictWithout(managers[m][1].requirements, stale)]
             IN  /\ managers' = [managers EXCEPT ![m] = Some(cleaned)]
                 /\ state_file' = SavedFile(cleaned)
                 /\ UNCHANGED <<detect_vars, fp_vars, update_vars>>

----------------------------------------------------------------------------
(* sync/parser.py: the text of a test file                                 *)
(*                                                                         *)
(* A file is a sequence of lines and a line is a record: its kind (one of  *)
(* the six markers, "meta" for `# key: value`, "def" for a test function   *)
(* definition, "deco" for a pytest.mark.requirement decorator, "code" for  *)
(* any other line), the key and the value it carries, the content hash of  *)
(* a `# content_hash:` line, and whether it ends in blanks.  Indexes into  *)
(* files are the 0-based indexes of the code.                              *)

Line(kind, key, val) ==
    [kind |-> kind, key |-> key, val |-> val, hash |-> None, trail |-> FALSE]

METADATA_START == Line("METADATA-START", "", "")

METADATA_END == Line("METADATA-END", "", "")

GENERATED_START == Line("GENERATED-START", "", "")

GENERATED_END == Line("GENERATED-END", "", "")

CUSTOM_START == Line("CUSTOM-START", "", "")

CUSTOM_END == Line("CUSTOM-END", "", "")

\* "# key: value"
MetaLine(key, val) == Line("meta", key, val)

\* "# content_hash: <digest>"
HashLine(digest) == [Line("meta", "content_hash", "") EXCEPT !.hash = digest]

\* "def test_<name>(...):"
DefLine(name) == Line("def", name, "")

\* "@pytest.mark.requirement(...)", val is the text after version= if any
DecoLine(version) == Line("deco", "", version)

CodeLine(text) == Line("code", "", text)

\* "# text", a comment without a colon
CommentLine(text) == Line("comment", "", text)

BlankLine == Line("blank", "", "")

\* line.strip().startswith("#")
StartsWithHash(line) == line.kind \notin {"code", "def", "deco", "class", "blank"}

\* str(int) and int(str) on the version numbers and timestamps of the model
Digits == <<"0", "1", "2", "3", "4", "5", "6", "7">>

Str(n) == Digits[n + 1]

ParseInt(s) == CHOOSE n \in 0..(Len(Digits) - 1) : Digits[n + 1] = s

At(lines, i) == lines[i + 1]

\* lines[a:b]
Slice(lines, a, b) == SubSeq(lines, a + 1, b)

Min(S) == CHOOSE x \in S : \A y \in S : x <= y

\* the element of a set of one; Only({e(x) : x \in {v}}) is e(v) with v
\* evaluated once
Only(S) == CHOOSE x \in S : TRUE

rstrip(line) == [line EXCEPT !.trail = FALSE]

\* the model's lines carry no indentation: strip removes the trailing blanks
strip(line) == rstrip(line)

\* TestMetadata.from_comment_block: the last `# key: value` of each key
MetaValue(lines, key, default) ==
    LET S == {i \in 1..Len(lines) :
                 lines[i].kind = "meta" /\ lines[i].key = key}
    IN  IF S = {} THEN default
        ELSE lines[CHOOSE i \in S : \A j \in S : j <= i]

from_comment_block(lines) ==
    LET get(key, default) == MetaValue(lines, key, MetaLine(key, default))
    IN  IF \A i \in 1..Len(lines) :
               ~(lines[i].kind = "meta" /\ lines[i].key = "requirement_id")
        THEN None
        ELSE Some([requirement_id |-> get("requirement_id", "").val,
                   requirement_name |-> get("requirement_name", "").val,
                   content_hash |-> get("content_hash", "").hash,
                   version |-> ParseInt(get("version", "1").val),
                   generated_at |-> get("generated_at", "").val,
                   generator_version |-> get("generator_version", "").val])

ProtectedRegion(region_type, start_line, end_line, content) ==
    [region_type |-> region_type, start_line |-> start_line,
     end_line |-> end_line, content |-> content]

\* TestFileParser._extract_block: the lines after start_idx up to the first
\* end marker, or up to the end of the file when there is none
extract_block(lines, start_idx, end_marker) ==
    LET ends == {i \in (start_idx + 1)..(Len(lines) - 1) :
                    strip(At(lines, i)) = end_marker}
        end == IF ends = {} THEN Len(lines) - 1 ELSE Min(ends)
        n == IF ends = {} THEN Len(lines) - 1 - start_idx
             ELSE end - 1 - start_idx
    IN  [content |-> [k \in 1..n |-> rstrip(At(lines, start_idx + k))],
         end |-> end]

\* lines _find_test_function looks ahead
LookAhead == 20

\* TestFileParser._find_test_function
find_test_function(lines, start_idx) ==
    LET last == IF start_idx + LookAhead < Len(lines)
                THEN start_idx + LookAhead ELSE Len(lines)
        S == {i \in start_idx..(last - 1) : At(lines, i).kind = "def"}
    IN  IF S = {} THEN None ELSE Some(At(lines, Min(S)).key)

\* TestFileParser._find_test_end
find_test_end(lines, start_idx) ==
    LET S == {i \in start_idx..(Len(lines) - 1) :
                 strip(At(lines, i)) = METADATA_START}
    IN  IF S = {} THEN Len(lines) - 1 ELSE Min(S) - 1

\* the region loop of _parse_single_test, from line `current`
RECURSIVE extract_regions(_, _, _)
extract_regions(lines, current, test_end) ==
    IF current >= test_end
    THEN [generated |-> <<>>, custom |-> <<>>]
    ELSE IF strip(At(lines, current)) = GENERATED_START
    THEN Only({ [extract_regions(lines, b.end + 1, test_end)
                    EXCEPT !.generated =
                        <<ProtectedRegion("GENERATED", current, b.end,
                                          b.content)>> \o @] :
                  b \in {extract_block(lines, current, GENERATED_END)} })
    ELSE IF strip(At(lines, current)) = CUSTOM_START
    THEN Only({ [extract_regions(lines, b.end + 1, test_end)
                    EXCEPT !.custom =
                        <<ProtectedRegion("CUSTOM", current, b.end,
                                          b.content)>> \o @] :
                  b \in {extract_block(lines, current, CUSTOM_END)} })
    ELSE extract_regions(lines, current + 1, test_end)

\* TestFileParser._parse_single_test: None, or <<ParsedTest>>
parse_single_test(lines, start_idx) ==
    LET block == extract_block(lines, start_idx, METADATA_END)
        metadata == from_comment_block(block.content)
        metadata_end == block.end
        func_name == find_test_function(lines, metadata_end)
        test_end == find_test_end(lines, metadata_end)
        regions == extract_regions(lines, metadata_end, test_end)
    IN  IF metadata = None \/ func_name = None
        THEN None
        ELSE Some([function_name |-> func_name[1],
                   metadata |-> metadata[1],
                   start_line |-> start_idx,
                   end_line |-> test_end,
                   generated_regions |-> regions.generated,
                   custom_regions |-> regions.custom,
                   full_content |-> Slice(lines, start_idx, test_end + 1)])

\* TestFileParser._parse_tests, from line i
RECURSIVE parse_tests_from(_, _)
parse_tests_from(lines, i) ==
    IF i >= Len(lines)
    THEN <<>>
    ELSE IF strip(At(lines, i)) = METADATA_START
    THEN Only({ IF test # None
                THEN test \o parse_tests_from(lines, test[1].end_line + 1)
                ELSE parse_tests_from(lines, i + 1) :
                  test \in {parse_single_test(lines, i)} })
    ELSE parse_tests_from(lines, i + 1)

\* _parse_tests that gives up at the first block it cannot parse
RECURSIVE parse_tests_stopping_from(_, _)
parse_tests_stopping_from(lines, i) ==
    IF i >= Len(lines)
    THEN <<>>
    ELSE IF strip(At(lines, i)) = METADATA_START
    THEN Only({ IF test # None
                THEN test \o parse_tests_stopping_from(lines,
                                                        test[1].end_line + 1)
                ELSE <<>> :
                  test \in {parse_single_test(lines, i)} })
    ELSE parse_tests_stopping_from(lines, i + 1)

parse_tests_stop_at_bad(lines) == parse_tests_stopping_from(lines, 0)

parse_tests(lines) == parse_tests_from(lines, 0)

\* TestFileParser.parse_file
parse_file(file) == IF ~file.exists THEN <<>> ELSE parse_tests(file.lines)

\* ParsedTest.has_custom_code: some custom line is neither blank nor comment
has_custom_code(test) ==
    \E r \in 1..Len(test.custom_regions) :
        \E i \in 1..Len(test.custom_regions[r].content) :
            LET stripped == strip(test.custom_regions[r].content[i])
            IN  stripped # BlankLine /\ ~StartsWithHash(stripped)

\* ParsedTest.get_custom_code
RECURSIVE Concat(_)
Concat(ss) == IF ss = <<>> THEN <<>> ELSE Head(ss) \o Concat(Tail(ss))

get_custom_code(test) ==
    Concat([r \in 1..Len(test.custom_regions) |->
               test.custom_regions[r].content])

----------------------------------------------------------------------------
(* generator/generator.py: the test code of one requirement *)

\* PytestGenerator._sanitize_name on the names of the model
sanitize_name(name, capitalize) ==
    IF name = "" THEN (IF capitalize THEN "" ELSE "unnamed_requirement")
    ELSE IF capitalize THEN name
    ELSE CASE name = "A" -> "a" [] name = "B" -> "b" [] OTHER -> name

\* TestTemplate (generator/templates.py): the block of one test, with its
\* metadata comment block, its generated region and the placeholder of the
\* custom region
TestTemplate_render(requirement_id, requirement_name, test_function_name, content_hash, version, generator_version) ==
    << METADATA_START,
       MetaLine("requirement_id", requirement_id),
       MetaLine("requirement_name", requirement_name),
       HashLine(content_hash),
       MetaLine("version", Str(version)),
       MetaLine("generated_at", ""),
       MetaLine("generator_version", generator_version),
       METADATA_END,
       DecoLine(Str(version)),
       DefLine(test_function_name),
       GENERATED_START,
       CodeLine("assert"),
       GENERATED_END,
       CUSTOM_START,
       CommentLine("placeholder"),
       CUSTOM_END >>

\* PytestGenerator._generate_property_test
generate_property_test(requirement) ==
    TestTemplate_render(
        IF requirement.id # "" THEN requirement.id ELSE requirement.name,
        requirement.name,
        sanitize_name(requirement.name, FALSE),
        Some(compute_requirement_hash(requirement)),
        1, "0.1.0")

\* PytestGenerator._generate_simple_test: SIMPLE_TEST is rendered without a
\* content hash
generate_simple_test(requirement) ==
    TestTemplate_render(
        IF requirement.id # "" THEN requirement.id ELSE requirement.name,
        requirement.name,
        sanitize_name(requirement.name, FALSE),
        None, 1, "")

\* PytestGenerator._generate_composite_test: a test class, no markers
generate_composite_test(requirement) ==
    << BlankLine,
       Line("deco", requirement.id, ""),
       Line("class", sanitize_name(requirement.name, TRUE), ""),
       CodeLine("docstring"),
       CodeLine(IF OrEmpty(requirement.documentation) # ""
                THEN requirement.documentation[1]
                ELSE "Composite requirement"),
       BlankLine,
       CodeLine("Nested requirements"),
       CodeLine("docstring"),
       CodeLine("pass") >>

\* PytestGenerator._generate_test_for_requirement (use_hypothesis is True
\* in the generator of the updater)
generate_test_for_requirement(requirement) ==
    IF requirement.nested_requirements # <<>>
    THEN generate_composite_test(requirement)
    ELSE IF requirement.attributes # <<>>
    THEN generate_property_test(requirement)
    ELSE generate_simple_test(requirement)

----------------------------------------------------------------------------
(* sync/updater.py: TestUpdater *)

\* the path of the test file, as the parts of its name
TestFilePath == <<"test_a", ".py">>

\* Path.suffix
suffix(path) == IF Len(path) > 1 THEN <<path[Len(path)]>> ELSE <<>>

\* Path.with_suffix
with_suffix(path, new_suffix) ==
    (IF Len(path) > 1 THEN SubSeq(path, 1, Len(path) - 1) ELSE path)
        \o new_suffix

UpdateResult(success, strategy_used) ==
    [file_path |-> TestFilePath,
     success |-> success, strategy_used |-> strategy_used,
     lines_preserved |-> 0, lines_updated |-> 0, backup_path |-> None,
     error_message |-> None, version_old |-> 0, version_new |-> 0]

\* TestUpdater._update_metadata_in_code
update_metadata_in_code(code, content_hash, version, now) ==
    [i \in 1..Len(code) |->
        LET line == code[i]
        IN  IF line.kind = "meta" /\ line.key = "content_hash"
            THEN HashLine(Some(content_hash))
            ELSE IF line.kind = "meta" /\ line.key = "version"
            THEN MetaLine("version", Str(version))
            ELSE IF line.kind = "meta" /\ line.key = "generated_at"
            THEN MetaLine("generated_at", Str(now))
            ELSE IF line.kind = "deco" /\ line.val # ""
            THEN [line EXCEPT !.val = Str(version)]
            ELSE line]

\* TestUpdater._merge_test_code
merge_test_code(old_test, new_lines) ==
    LET custom_region_indices ==
            {i \in 0..(Len(new_lines) - 1) :
                strip(At(new_lines, i)) = CUSTOM_START}
    IN  IF old_test.custom_regions # <<>> /\ custom_region_indices # {}
        THEN LET old_custom_content == old_test.custom_regions[1].content
                 insert_idx == Min(custom_region_indices) + 1
                 ends == {i \in insert_idx..(Len(new_lines) - 1) :
                             strip(At(new_lines, i)) = CUSTOM_END}
                 custom_end_idx == IF ends = {} THEN -1 ELSE Min(ends)
             IN  IF custom_end_idx > insert_idx
                 THEN Slice(new_lines, 0, insert_idx)
                          \o old_custom_content
                          \o Slice(new_lines, custom_end_idx, Len(new_lines))
                 ELSE new_lines
        ELSE new_lines

\* str.replace on texts that are whole lines: every occurrence of old,
\* from the left, becomes new
RECURSIVE replace(_, _, _)
replace(text, old, new) ==
    IF Len(text) < Len(old) \/ old = <<>>
    THEN text
    ELSE IF SubSeq(text, 1, Len(old)) = old
    THEN new \o replace(SubSeq(text, Len(old) + 1, Len(text)), old, new)
    ELSE <<Head(text)>> \o replace(Tail(text), old, new)

\* the backup directory before any backup
NoBackups == [t \in 0..MaxClock |-> None]

\* TestUpdater._create_backup: the backup is named after the file and the
\* second of the clock; copying a missing file fails and gives no backup
create_backup(file, bk, now, create_backups) ==
    IF create_backups /\ file.exists
    THEN [backups |-> [bk EXCEPT ![now] = Some(file.lines)],
          backup_path |-> Some(now)]
    ELSE [backups |-> bk, backup_path |-> None]

\* sum(len(region.content) for region in regions)
RECURSIVE SumLen(_)
SumLen(regions) ==
    IF regions = <<>> THEN 0
    ELSE Len(Head(regions).content) + SumLen(Tail(regions))

\* the first parsed test of the requirement, None or <<ParsedTest>>
find_target_test(parsed_tests, requirement_id) ==
    LET S == {i \in 1..Len(parsed_tests) :
                 parsed_tests[i].metadata.requirement_id = requirement_id}
    IN  IF S = {} THEN None ELSE Some(parsed_tests[Min(S)])

\* requirement.metadata.id or requirement.metadata.name
IdOrName(requirement) ==
    IF requirement.id # "" THEN requirement.id ELSE requirement.name

\* the block of a requirement in a file as the parser reads it
BlockOf(file, requirement_id) ==
    find_target_test(parse_file(file), requirement_id)

\* _surgical_update that opens the file for writing before it parses it
surgical_update_opens_first(file, bk, now, requirement, new_version, create_backups) ==
    LET backup == create_backup(file, bk, now, create_backups)
        target_test == find_target_test(parse_file(file), IdOrName(requirement))
    IN  IF target_test = None
        THEN [test_file |-> [exists |-> TRUE, lines |-> <<>>],
              backups |-> backup.backups,
              result |-> [UpdateResult(FALSE, "surgical")
                             EXCEPT !.error_message = Some("Test not found")]]
        ELSE Only({
            [test_file |-> [exists |-> TRUE,
                            lines |-> replace(file.lines,
                                Slice(file.lines, target_test[1].start_line,
                                      target_test[1].end_line + 1), merged)],
             backups |-> backup.backups,
             result |-> [UpdateResult(TRUE, "surgical") EXCEPT
                 !.lines_preserved = SumLen(target_test[1].custom_regions),
                 !.lines_updated = Len(merged),
                 !.backup_path = backup.backup_path,
                 !.version_old = target_test[1].metadata.version,
                 !.version_new = new_version]] :
            merged \in {merge_test_code(target_test[1],
                update_metadata_in_code(
                    generate_test_for_requirement(requirement),
                    compute_requirement_hash(requirement), new_version, now))} })

\* TestUpdater._surgical_update: the file, the backups and the result
surgical_update(file, bk, now, requirement, new_version, create_backups) ==
    LET backup == create_backup(file, bk, now, create_backups)
        parsed_tests == parse_file(file)
        requirement_id == IdOrName(requirement)
        target_test == find_target_test(parsed_tests, requirement_id)
        failed(message) ==
            [test_file |-> file, backups |-> backup.backups,
             result |-> [UpdateResult(FALSE, "surgical")
                            EXCEPT !.error_message = Some(message)]]
    IN  IF parsed_tests = <<>> THEN failed("No tests found in file")
        ELSE IF target_test = None THEN failed("Test not found")
        ELSE
        LET target == target_test[1]
            new_test_code == update_metadata_in_code(
                generate_test_for_requirement(requirement),
                compute_requirement_hash(requirement), new_version, now)
            merged_code == merge_test_code(target, new_test_code)
            old_test_content ==
                Slice(file.lines, target.start_line, target.end_line + 1)
            updated_content ==
                replace(file.lines, old_test_content, merged_code)
        IN  [test_file |-> [exists |-> TRUE, lines |-> updated_content],
             backups |-> backup.backups,
             result |-> [UpdateResult(TRUE, "surgical") EXCEPT
                 !.lines_preserved = SumLen(target.custom_regions),
                 !.lines_updated = Len(merged_code),
                 !.backup_path = backup.backup_path,
                 !.version_old = target.metadata.version,
                 !.version_new = new_version]]

\* ConstraintTranspiler.transpile raises TranspilationError on an empty
\* expression: the message of the error the generator raises for the
\* requirement, or None.  A test class is generated without transpiling;
\* a property test transpiles the assume and the require constraints, a
\* simple test the require constraints
generator_never_fails(requirement) == None

generator_error(requirement) ==
    LET transpiled ==
            IF requirement.nested_requirements # <<>> THEN {}
            ELSE IF requirement.attributes # <<>> THEN {"assume", "require"}
            ELSE {"require"}
    IN  IF \E i \in 1..Len(requirement.constraints) :
               /\ requirement.constraints[i].kind \in transpiled
               /\ requirement.constraints[i].expression = ""
        THEN Some("Empty expression")
        ELSE None

\* TestUpdater._choose_strategy
choose_strategy_major_surgical(severity) == "surgical"

choose_strategy(severity) ==
    IF severity = "none" THEN "surgical"
    ELSE IF severity = "minor" THEN "surgical"
    ELSE IF severity = "moderate" THEN "surgical"
    ELSE "side_by_side"

\* TestUpdater._full_regeneration: the file, the backups and the result
full_regeneration(file, bk, now, requirement, new_version, create_backups) ==
    LET backup == create_backup(file, bk, now, create_backups)
        old_tests == parse_file(file)
        old_version == IF old_tests # <<>>
                       THEN old_tests[1].metadata.version ELSE 1
        test_code == update_metadata_in_code(
            generate_test_for_requirement(requirement),
            compute_requirement_hash(requirement), new_version, now)
    IN  [test_file |-> [exists |-> TRUE, lines |-> test_code],
         backups |-> backup.backups,
         result |-> [UpdateResult(TRUE, "full_regen") EXCEPT
             !.lines_updated = Len(test_code),
             !.backup_path = backup.backup_path,
             !.version_old = old_version,
             !.version_new = new_version]]

\* TestUpdater._side_by_side_update: the file written and the result
side_by_side_wrong_path(file, now, requirement, new_version) ==
    [new_file |-> [path |-> TestFilePath, lines |-> <<>>],
     result |-> UpdateResult(TRUE, "side_by_side")]

side_by_side_update(file, now, requirement, new_version) ==
    LET old_tests == parse_file(file)
        old_version == IF old_tests # <<>>
                       THEN old_tests[1].metadata.version ELSE 1
        test_code == update_metadata_in_code(
            generate_test_for_requirement(requirement),
            compute_requirement_hash(requirement), new_version, now)
        new_file_path ==
            with_suffix(TestFilePath, suffix(TestFilePath) \o <<".new">>)
    IN  [new_file |-> [path |-> new_file_path, lines |-> test_code],
         result |-> [UpdateResult(TRUE, "side_by_side") EXCEPT
             !.file_path = new_file_path,
             !.lines_updated = Len(test_code),
             !.version_old = old_version,
             !.version_new = new_version]]

\* what the file system does to the update: whether the backup copy works,
\* and whether the file the update writes can be opened and written
IOOutcomes ==
    { [backup_ok |-> TRUE, write |-> "ok"],
      [backup_ok |-> FALSE, write |-> "ok"],
      [backup_ok |-> TRUE, write |-> "open_fails"],
      [backup_ok |-> TRUE, write |-> "write_fails"] }

\* a file opened for writing whose write failed
TruncatedFile == [exists |-> TRUE, lines |-> <<>>]

\* TestUpdater.update_test_file: the test file, the file beside it, the
\* backups and the result.  An exception of the generator or of the write
\* is caught and becomes a failed result; a failed backup copy is the
\* backup step returning None
update_test_file(file, nf, bk, now, requirement, strategy, severity, new_version, create_backups, io) ==
    LET chosen == IF strategy = "hybrid" THEN choose_strategy(severity)
                  ELSE strategy
        backed_up == create_backups /\ io.backup_ok
        error == generator_error(requirement)
        raised(f, n, b, message) ==
            [test_file |-> f, new_file |-> n, backups |-> b,
             result |-> [UpdateResult(FALSE, chosen)
                            EXCEPT !.error_message = Some(message)]]
        written(out, target) ==
            IF error # None
            THEN raised(file, nf, out.backups, error[1])
            ELSE IF io.write = "open_fails"
            THEN raised(file, nf, out.backups, "Permission denied")
            ELSE IF io.write = "write_fails"
            THEN IF target = "test_file"
                 THEN raised(TruncatedFile, nf, out.backups,
                             "No space left on device")
                 ELSE raised(file,
                             Some([out.new_file[1] EXCEPT !.lines = <<>>]),
                             out.backups, "No space left on device")
            ELSE out
    IN  IF chosen = "full_regen"
        THEN Only({ written(out @@ [new_file |-> nf], "test_file") :
                      out \in {full_regeneration(file, bk, now, requirement,
                                                 new_version, backed_up)} })
        ELSE IF chosen = "surgical"
        THEN Only({ IF out.result.success
                    THEN written(out @@ [new_file |-> nf], "test_file")
                    ELSE out @@ [new_file |-> nf] :
                      out \in {surgical_update(file, bk, now, requirement,
                                               new_version, backed_up)} })
        ELSE IF chosen = "side_by_side"
        THEN Only({ written([test_file |-> file,
                             new_file |-> Some(out.new_file),
                             backups |-> bk, result |-> out.result],
                            "new_file") :
                      out \in {side_by_side_update(file, now, requirement,
                                                   new_version)} })
        ELSE raised(file, nf, bk, "Unknown strategy")

----------------------------------------------------------------------------
(* Operations on the test file *)

MissingFile == [exists |-> FALSE, lines |-> <<>>]

UpdateIdle ==
    /\ test_file = MissingFile
    /\ backups = NoBackups
    /\ clock = 0
    /\ update_result = None
    /\ new_file = None
    /\ batch_results = None
    /\ parse_result = None

\* TestUpdater(create_backups=...).update_test_file(test_file, requirement,
\*     UpdateStrategy.SURGICAL, new_version=...); as its caller does
\* (cli.py, req_state.version + 1), the update asks for a version above
\* the one of the block it replaces
SurgicalUpdate(requirement, new_version, create_backups) ==
    \E out \in {surgical_update(test_file, backups, clock, requirement,
                                 new_version, create_backups)},
       old \in {BlockOf(test_file, IdOrName(requirement))} :
        /\ IF old = None THEN TRUE
           ELSE old[1].metadata.version < new_version
        /\ test_file' = out.test_file
        /\ backups' = out.backups
        /\ update_result' = Some(out.result)
        /\ UNCHANGED <<clock, new_file, batch_results, parse_result,
                       detect_vars, fp_vars,
                       state_vars>>

\* TestUpdater(create_backups=...).update_test_file(test_file, requirement,
\*     strategy, severity, new_version) under the file system outcome io;
\* the update asks for a version above the one of the block it replaces
UpdaterUpdateTestFile(requirement, strategy, severity, new_version, create_backups, io) ==
    \E out \in {update_test_file(test_file, new_file, backups, clock,
                                  requirement, strategy, severity,
                                  new_version, create_backups, io)},
       old \in {BlockOf(test_file, IdOrName(requirement))} :
        /\ IF old = None THEN TRUE
           ELSE old[1].metadata.version < new_version
        /\ test_file' = out.test_file
        /\ new_file' = out.new_file
        /\ backups' = out.backups
        /\ update_result' = Some(out.result)
        /\ UNCHANGED <<clock, batch_results, parse_result, detect_vars,
                       fp_vars, state_vars>>

\* TestUpdater.update_multiple_tests from the state fs = [test_file,
\* new_file, backups]: the state after the last update and the results.
\* An update is [requirement, severity, new_version, io]: the update spec
\* of the test file and what the file system does during the update
RECURSIVE update_multiple_stop_at_failure(_, _, _, _, _)
update_multiple_stop_at_failure(fs, now, updates, strategy, create_backups) ==
    IF updates = <<>>
    THEN [fs |-> fs, results |-> <<>>]
    ELSE Only({ IF out.result.success
                THEN Only({ [rest EXCEPT !.results = <<out.result>> \o @] :
                     rest \in {update_multiple_stop_at_failure(
                         [test_file |-> out.test_file,
                          new_file |-> out.new_file,
                          backups |-> out.backups],
                         now, Tail(updates), strategy, create_backups)} })
                ELSE [fs |-> fs, results |-> <<out.result>>] :
            out \in {update_test_file(
                fs.test_file, fs.new_file, fs.backups, now,
                Head(updates).requirement, strategy, Head(updates).severity,
                Head(updates).new_version, create_backups,
                Head(updates).io)} })

RECURSIVE update_multiple_tests(_, _, _, _, _)
update_multiple_tests(fs, now, updates, strategy, create_backups) ==
    IF updates = <<>>
    THEN [fs |-> fs, results |-> <<>>]
    ELSE Only({ Only({ [rest EXCEPT !.results = <<out.result>> \o @] :
                  rest \in {update_multiple_tests(
                      [test_file |-> out.test_file,
                       new_file |-> out.new_file,
                       backups |-> out.backups],
                      now, Tail(updates), strategy, create_backups)} }) :
            out \in {update_test_file(
                fs.test_file, fs.new_file, fs.backups, now,
                Head(updates).requirement, strategy, Head(updates).severity,
                Head(updates).new_version, create_backups,
                Head(updates).io)} })

\* TestUpdater(create_backups=...).update_multiple_tests(updates, strategy)
UpdateMultipleTests(updates, strategy, create_backups) ==
    \E out \in {update_multiple_tests(
                    [test_file |-> test_file, new_file |-> new_file,
                     backups |-> backups],
                    clock, updates, strategy, create_backups)} :
        /\ test_file' = out.fs.test_file
        /\ new_file' = out.fs.new_file
        /\ backups' = out.fs.backups
        /\ batch_results' = Some([updates |-> updates, strategy |-> strategy,
                                  create_backups |-> create_backups,
                                  results |-> out.results])
        /\ UNCHANGED <<clock, update_result, parse_result, detect_vars,
                       fp_vars, state_vars>>

\* TestFileParser().parse_file(test_file)
ParseFile ==
    /\ parse_result' = Some(parse_file(test_file))
    /\ UNCHANGED <<test_file, backups, clock, update_result, new_file,
                   batch_results, detect_vars, fp_vars, state_vars>>

\* a second passes
Tick ==
    /\ clock < MaxClock
    /\ clock' = clock + 1
    /\ UNCHANGED <<test_file, backups, update_result, new_file, batch_results,
                   parse_result,
                   detect_vars, fp_vars, state_vars>>

----------------------------------------------------------------------------
(* Operations on the detector and the fingerprint engine *)

DetectIdle ==
    /\ old_requirements = <<>>
    /\ new_requirements = <<>>
    /\ report = None

HashIdle ==
    /\ fp_input = None
    /\ fp_result = None

\* report = SyncDetector().detect_changes(old_requirements, new_requirements)
DetectChanges ==
    /\ report = None
    /\ report' = Some(detect_changes(old_requirements, new_requirements))
    /\ UNCHANGED <<old_requirements, new_requirements, fp_vars, state_vars,
                   update_vars>>

\* compute_requirement_hash of a requirement and of its reordering
ComputeHashes ==
    /\ fp_result = None
    /\ fp_input # None
    /\ fp_result' = Some(<<compute_requirement_hash(fp_input[1]),
                           compute_requirement_hash(fp_input[2])>>)
    /\ UNCHANGED <<fp_input, detect_vars, state_vars, update_vars>>

\* create_fingerprint of a requirement and of a changed copy of it
CreateFingerprints ==
    /\ fp_result = None
    /\ fp_input # None
    /\ fp_result' = Some(<<create_fingerprint(fp_input[1]),
                           create_fingerprint(fp_input[2])>>)
    /\ UNCHANGED <<fp_input, detect_vars, state_vars, update_vars>>

\* comparison = compare_fingerprints(old, new)
CompareFingerprints ==
    /\ fp_result = None
    /\ fp_input # None
    /\ fp_result' = Some(compare_fingerprints(fp_input[1], fp_input[2]))
    /\ UNCHANGED <<fp_input, detect_vars, state_vars, update_vars>>

----------------------------------------------------------------------------
(* SpecDetect: detect_changes on every pair of requirement lists *)

InitDetect ==
    /\ old_requirements \in SeqsUpTo(DetectPool, MaxTotalReqs)
    /\ new_requirements \in SeqsUpTo(DetectPool, MaxTotalReqs)
    /\ Len(old_requirements) + Len(new_requirements) <= MaxTotalReqs
    /\ report = None
    /\ HashIdle
    /\ StateIdle
    /\ UpdateIdle

NextDetect == DetectChanges

SpecDetect == InitDetect /\ [][NextDetect]_vars

(* SpecSeverity: detect_changes on two versions of one requirement *)

InitSeverity ==
    /\ old_requirements \in {<<r>> : r \in SeverityPool}
    /\ new_requirements \in {<<r>> : r \in SeverityPool}
    /\ report = None
    /\ HashIdle
    /\ StateIdle
    /\ UpdateIdle

NextSeverity == DetectChanges

SpecSeverity == InitSeverity /\ [][NextSeverity]_vars

(* SpecHash: compute_requirement_hash on a requirement and a reordering *)

InitHash ==
    /\ DetectIdle
    /\ StateIdle
    /\ UpdateIdle
    /\ fp_result = None
    /\ \E r \in HashPool :
        \E attrs \in Reorderings(r.attributes) :
            \E cons \in Reorderings(r.constraints) :
                fp_input = <<r, [r EXCEPT !.attributes = attrs,
                                          !.constraints = cons]>>

NextHash == ComputeHashes

SpecHash == InitHash /\ [][NextHash]_vars

----------------------------------------------------------------------------
(* SpecState: two managers work on one state directory, whose state file  *)
(* is missing or unreadable at the start                                   *)

InitState ==
    /\ DetectIdle
    /\ HashIdle
    /\ UpdateIdle
    /\ state_file \in {AbsentFile, CorruptFile}
    /\ managers = [m \in Managers |-> None]

NextState ==
    \E m \in Managers :
        \/ Initialize(m)
        \/ Load(m)
        \/ Save(m)
        \/ \E id \in TrackedIds : UpdateRequirement(m, id, "hash1", 1)
        \/ \E f \in TestFiles : UpdateTestFile(m, f, <<"R1">>)
        \/ MarkSynced(m)
        \/ \E ids \in SUBSET TrackedIds : CleanupStale(m, ids)

SpecState == InitState /\ [][NextState]_vars

\* the ids a manager tracks
TrackedBy(m) ==
    IF managers[m] = None THEN {} ELSE DOMAIN managers[m][1].requirements

\* what a cleanup that removed entries leaves: the stale ids are exactly
\* the tracked ids outside current_ids, exactly those entries are gone,
\* every other entry and every other field is unchanged, and a freshly
\* loaded state is the cleaned state and tracks no id outside current_ids
CleanedAndPersisted(m, current_ids) ==
    /\ get_stale_requirements(m, current_ids) = TrackedBy(m) \ current_ids
    /\ managers'[m] # None
    /\ DOMAIN managers'[m][1].requirements = TrackedBy(m) \cap current_ids
    /\ \A k \in DOMAIN managers'[m][1].requirements :
          managers'[m][1].requirements[k] = managers[m][1].requirements[k]
    /\ managers'[m][1].test_files = managers[m][1].test_files
    /\ managers'[m][1].sync_count = managers[m][1].sync_count
    /\ managers'[m][1].last_sync = managers[m][1].last_sync
    /\ \A o \in Managers \ {m} : managers'[o] = managers[o]
    /\ Loaded' = managers'[m][1]
    /\ DOMAIN Loaded'.requirements \subseteq current_ids

\* C17 (as claimed): get_stale_requirements returns the tracked ids outside
\* current_ids; cleanup_stale_requirements removes exactly those, leaves the
\* others unchanged and persists the result, so that after any cleanup, the
\* one that found nothing stale included, a freshly loaded state tracks no
\* id outside current_ids
C17_CleanupPersists ==
    /\ [][\A m \in Managers, current_ids \in SUBSET TrackedIds :
            CleanupStale(m, current_ids) =>
                CleanedAndPersisted(m, current_ids)]_vars
    /\ [](\A m \in Managers, current_ids \in SUBSET TrackedIds :
            get_stale_requirements(m, current_ids) = {} =>
                DOMAIN Loaded.requirements \subseteq current_ids)

\* C17 (amended): a cleanup that finds stale ids removes exactly those,
\* leaves the others unchanged and saves the state, so that a freshly
\* loaded state tracks no id outside current_ids; a cleanup that finds
\* nothing stale writes nothing
C17_CleanupPersists_Amended ==
    [][\A m \in Managers, current_ids \in SUBSET TrackedIds :
        CleanupStale(m, current_ids) =>
            CleanedAndPersisted(m, current_ids)]_vars

\* C17 witness: the state file holds the state of a manager that tracks R1
\* only, while the other manager still tracks R1 and R2 as both did before
\* the cleanup
C17_Witness ==
    /\ managers["m1"] # None
    /\ managers["m2"] # None
    /\ TrackedBy("m1") = {"R1"}
    /\ TrackedBy("m2") = {"R1", "R2"}
    /\ state_file = SavedFile(managers["m1"][1])
    /\ managers["m1"][1].sync_count = managers["m2"][1].sync_count
    /\ managers["m1"][1].sync_count > 0

----------------------------------------------------------------------------
(* SpecPersist: a manager holds a state with requirements and test files, *)
(* saves it, and a second manager on the same directory loads it          *)

\* the fingerprint stored with a requirement (cli.py sync command)
StoredFingerprint(requirement_id, version) ==
    [requirement_id |-> requirement_id, content_hash |-> "hash1",
     version |-> version, timestamp |-> Now, metadata_hash |-> "mhash1",
     structure_hash |-> "shash1"]

\* the RequirementState values of an id
RequirementStates(requirement_id) ==
    { [requirement_id |-> requirement_id, content_hash |-> "hash1",
       version |-> v, test_file |-> f, last_updated |-> Now,
       has_custom_code |-> c,
       fingerprint |-> IF fp THEN Some(StoredFingerprint(requirement_id, v))
                       ELSE None] :
        v \in 1..MaxVersion, c \in BOOLEAN, fp \in BOOLEAN,
        f \in {None, Some(Path("test_a.py")), Some(Path(""))} }

\* the TestFileState values of a path
TestFileStates(file_path) ==
    { [file_path |-> Path(file_path), requirements |-> rs,
       last_generated |-> Now, has_custom_code |-> c, backup_count |-> b] :
        rs \in {<<>>, <<"R1">>, <<"R2", "R1">>}, c \in BOOLEAN,
        b \in 0..MaxBackupCount }

\* the states a manager holds: at most one requirement, whose state is any
\* of RequirementStates, beside R2 tracked without a file, and at most one
\* test file
PersistStates ==
    { [last_sync |-> ls, sync_count |-> IF ls = None THEN 0 ELSE 1,
       requirements |-> rq, test_files |-> tf] :
        ls \in {None, Some(Now)},
        rq \in {<<>>} \cup { DictSet(base, "R1", r) :
                    base \in {<<>>, DictSet(<<>>, "R2",
                        CHOOSE x \in RequirementStates("R2") :
                            /\ x.version = 1 /\ x.test_file = None
                            /\ ~x.has_custom_code /\ x.fingerprint = None)},
                    r \in RequirementStates("R1") },
        tf \in {<<>>} \cup { DictSet(<<>>, PathStr(t.file_path), t) :
                    t \in TestFileStates("test_a.py") } }

InitPersist ==
    /\ DetectIdle
    /\ HashIdle
    /\ UpdateIdle
    /\ state_file \in {AbsentFile, CorruptFile}
    /\ \E st \in PersistStates :
        managers = [m \in Managers |-> IF m = "m1" THEN Some(st) ELSE None]

NextPersist ==
    \/ Save("m1")
    \/ Load("m2")
    \/ Initialize("m2")

SpecPersist == InitPersist /\ [][NextPersist]_vars

\* C16: load never fails and sets what it returns as the manager's state:
\* the fresh empty state (no requirements, no test files, sync_count 0,
\* last_sync unset) when the state file is absent or cannot be parsed into
\* a SyncState, and the state that was saved when the file holds a valid
\* document
C16_LoadNeverFails ==
    [][\A m \in Managers :
        Load(m) =>
            /\ managers'[m] # None
            /\ IF ~state_file.exists \/ ~state_file.valid
               THEN /\ managers'[m][1].requirements = <<>>
                    /\ managers'[m][1].test_files = <<>>
                    /\ managers'[m][1].sync_count = 0
                    /\ managers'[m][1].last_sync = None
               ELSE \E w \in Managers :
                    /\ managers[w] # None
                    /\ state_file = SavedFile(managers[w][1])
                    /\ managers'[m][1] = managers[w][1]]_vars

\* C16 witness: a manager has loaded the fresh state from an unreadable
\* state file while another manager holds tracked requirements
C16_Witness ==
    /\ state_file = CorruptFile
    /\ managers["m2"] = Some(FreshState)
    /\ managers["m1"] # None
    /\ managers["m1"][1].requirements # <<>>

\* two RequirementState are equivalent
SameRequirementState(a, b) ==
    /\ a.requirement_id = b.requirement_id
    /\ a.content_hash = b.content_hash
    /\ a.version = b.version
    /\ a.test_file = b.test_file
    /\ a.has_custom_code = b.has_custom_code
    /\ a.fingerprint = b.fingerprint

\* two TestFileState are equivalent
SameTestFileState(a, b) ==
    /\ a.requirements = b.requirements
    /\ a.has_custom_code = b.has_custom_code
    /\ a.backup_count = b.backup_count

\* two SyncState are equivalent
SameSyncState(a, b) ==
    /\ a.sync_count = b.sync_count
    /\ a.last_sync = b.last_sync
    /\ DOMAIN a.requirements = DOMAIN b.requirements
    /\ \A k \in DOMAIN a.requirements :
          SameRequirementState(a.requirements[k], b.requirements[k])
    /\ DOMAIN a.test_files = DOMAIN b.test_files
    /\ \A k \in DOMAIN a.test_files :
          SameTestFileState(a.test_files[k], b.test_files[k])

\* C18: for every SyncState s a manager holds, from_dict(s.to_dict()) is
\* equivalent to s: same sync_count and last_sync, same requirement ids
\* with the same content_hash, version, test_file, has_custom_code and
\* fingerprint, and same test-file entries
C18_RoundTrip ==
    \A m \in Managers :
        managers[m] # None =>
            SameSyncState(SyncState_from_dict(SyncState_to_dict(managers[m][1])),
                          managers[m][1])

\* C18 witness: a state with a requirement that has a test file, custom
\* code and a fingerprint, and with a test file entry that counts a backup,
\* was written by to_dict and read back by from_dict
C18_Witness ==
    /\ managers["m1"] # None
    /\ managers["m2"] # None
    /\ state_file = SavedFile(managers["m1"][1])
    /\ managers["m2"][1] = SyncState_from_dict(state_file.doc)
    /\ managers["m1"][1].last_sync # None
    /\ "R1" \in DOMAIN managers["m1"][1].requirements
    /\ managers["m1"][1].requirements["R1"].test_file # None
    /\ managers["m1"][1].requirements["R1"].has_custom_code
    /\ managers["m1"][1].requirements["R1"].fingerprint # None
    /\ \E k \in DOMAIN managers["m1"][1].test_files :
          /\ managers["m1"][1].test_files[k].backup_count = 1
          /\ managers["m1"][1].test_files[k].requirements = <<"R2", "R1">>

----------------------------------------------------------------------------
(* SpecUpdate: surgical updates of a test file that was generated earlier  *)
(* and to which its user has added custom code                             *)

\* lines a user writes into a custom region: code, code that ends in
\* blanks, a comment
CustomLines ==
    { CodeLine("u1"), [CodeLine("u2") EXCEPT !.trail = TRUE],
      CommentLine("note") }

\* the custom regions of a block: at most MaxRegions regions holding at
\* most MaxCustomLines lines together
RegionLists ==
    { regions \in SeqsUpTo(SeqsUpTo(CustomLines, MaxCustomLines), MaxRegions) :
        Len(Concat(regions)) <= MaxCustomLines }

\* a generated block in which the user's custom regions stand in place of
\* the generated one
BlockWith(requirement, regions) ==
    LET code == generate_test_for_requirement(requirement)
        start == Min({i \in 0..(Len(code) - 1) : At(code, i) = CUSTOM_START})
    IN  Slice(code, 0, start)
            \o Concat([r \in 1..Len(regions) |->
                          <<CUSTOM_START>> \o regions[r] \o <<CUSTOM_END>>])

h150 ==
    [name |-> "h", type |-> "Integer", min_value |-> Some(150),
     max_value |-> Some(200), description |-> None]

h140 == [h150 EXCEPT !.min_value = Some(140)]

\* the requirements of the file at the start; the second has no id and
\* its block is written under its name
OldR1 == Requirement("R1", "A", None, <<h150>>, <<>>, <<>>)

OldR2 == Requirement("", "B", None, <<h150>>, <<>>, <<>>)

\* the changed requirements an update is asked for: R1 with another bound,
\* without attributes, with a nested requirement; the requirement without id
UpdatePool ==
    { Requirement("R1", "A", None, <<h140>>, <<>>, <<>>),
      Requirement("R1", "A", None, <<>>, <<>>, <<>>),
      Requirement("R1", "A", None, <<h150>>, <<>>, <<"N1">>),
      Requirement("", "B", None, <<h140>>, <<>>, <<>>) }

\* the file at the start: missing, one block, two blocks in either order,
\* or the same block twice
InitialFiles ==
    {MissingFile} \cup
    { [exists |-> TRUE, lines |-> BlockWith(OldR1, regions)] :
        regions \in RegionLists } \cup
    { [exists |-> TRUE, lines |-> lines] :
        lines \in UNION { { BlockWith(OldR1, regions)
                                \o BlockWith(OldR2, <<<<CodeLine("u1")>>>>),
                            BlockWith(OldR2, <<>>)
                                \o BlockWith(OldR1, regions),
                            BlockWith(OldR1, regions)
                                \o BlockWith(OldR1, regions) } :
                          regions \in { r \in RegionLists :
                                          Len(Concat(r)) <= 1 } } }

InitUpdate ==
    /\ DetectIdle
    /\ HashIdle
    /\ StateIdle
    /\ test_file \in InitialFiles
    /\ backups = NoBackups
    /\ clock = 0
    /\ update_result = None
    /\ new_file = None
    /\ batch_results = None
    /\ parse_result = None

NextUpdate ==
    \/ \E requirement \in UpdatePool, new_version \in 2..MaxVersion,
          create_backups \in BOOLEAN :
            SurgicalUpdate(requirement, new_version, create_backups)
    \/ Tick

SpecUpdate == InitUpdate /\ [][NextUpdate]_vars

----------------------------------------------------------------------------
(* SpecStrategy: one call of update_test_file under every strategy and     *)
(* severity, with backups on or off, on a file system whose copies and     *)
(* writes can fail                                                         *)

\* a requirement whose require constraint has an empty expression
EmptyConstraint == [kind |-> "require", expression |-> "", description |-> None]

StrategyPool ==
    { Requirement("R1", "A", None, <<h140>>, <<>>, <<>>),
      Requirement("R1", "A", None, <<h150>>, <<>>, <<"N1">>),
      Requirement("R1", "A", None, <<h140>>, <<EmptyConstraint>>, <<>>) }

Strategies == {"full_regen", "surgical", "side_by_side", "hybrid"}

Severities == {"none", "minor", "moderate", "major"}

\* strategy and severity of a call: the severity is read under hybrid only
\* and is the default of the parameter otherwise
StrategyCalls ==
    { c \in [strategy : Strategies, severity : Severities] :
        c.strategy # "hybrid" => c.severity = "moderate" }

StrategyFiles ==
    { MissingFile,
      [exists |-> TRUE, lines |-> BlockWith(OldR1, <<>>)],
      [exists |-> TRUE, lines |-> BlockWith(OldR1, <<<<CodeLine("u1")>>>>)],
      [exists |-> TRUE,
       lines |-> BlockWith(OldR2, <<>>)
                    \o BlockWith(OldR1, <<<<CodeLine("u1")>>>>)],
      [exists |-> TRUE, lines |-> BlockWith(OldR2, <<>>)],
      [exists |-> TRUE,
       lines |-> update_metadata_in_code(
                     BlockWith(OldR2, <<>>), compute_requirement_hash(OldR2),
                     MaxVersion, 0)
                    \o BlockWith(OldR1, <<>>)] }

InitStrategy ==
    /\ DetectIdle
    /\ HashIdle
    /\ StateIdle
    /\ test_file \in StrategyFiles
    /\ backups = NoBackups
    /\ clock = 0
    /\ update_result = None
    /\ new_file = None
    /\ batch_results = None
    /\ parse_result = None

NextStrategy ==
    \/ \E requirement \in StrategyPool, call \in StrategyCalls,
          new_version \in 2..MaxVersion, create_backups \in BOOLEAN,
          io \in IOOutcomes :
            /\ update_result = None
            /\ UpdaterUpdateTestFile(requirement, call.strategy, call.severity,
                                     new_version, create_backups, io)
    \/ Tick

SpecStrategy == InitStrategy /\ [][NextStrategy]_vars

\* ---------------------------------------------------------------------
\* Batches of updates: one call of update_multiple_tests on a test file

MaxBatch == 2

\* the file system on which every copy and every write works
IOWorks == [backup_ok |-> TRUE, write |-> "ok"]

IOFails == [backup_ok |-> TRUE, write |-> "open_fails"]

\* the update specs of a batch: a requirement whose test is regenerated,
\* one named by its name only, and one whose constraint cannot be
\* transpiled; 'severity' and 'new_version' absent from the dict are the
\* defaults "moderate" and 2
BatchUpdates ==
    { u \in [requirement : { Requirement("R1", "A", None, <<h140>>, <<>>, <<>>),
                             Requirement("", "B", None, <<h140>>, <<>>, <<>>),
                             Requirement("R1", "A", None, <<h140>>,
                                         <<EmptyConstraint>>, <<>>) },
             severity : {"moderate", "major"},
             new_version : {2},
             io : {IOWorks, IOFails}] :
        u.severity = "major" =>
            /\ u.requirement.constraints = <<>>
            /\ u.requirement.id = "R1"
            /\ u.io = IOWorks }

InitBatch ==
    /\ DetectIdle
    /\ HashIdle
    /\ StateIdle
    /\ test_file \in StrategyFiles
    /\ backups = NoBackups
    /\ clock = 0
    /\ update_result = None
    /\ new_file = None
    /\ batch_results = None
    /\ parse_result = None

NextBatch ==
    \/ \E updates \in SeqsUpTo(BatchUpdates, MaxBatch),
          strategy \in Strategies, create_backups \in BOOLEAN :
            /\ batch_results = None
            /\ UpdateMultipleTests(updates, strategy, create_backups)
    \/ Tick

SpecBatch == InitBatch /\ [][NextBatch]_vars

\* the outcome of the k-th update of a batch applied on its own, by one
\* call of update_test_file, to the files the k-1 updates before it left
RECURSIVE UpdateAlone(_, _, _, _, _, _)
UpdateAlone(fs, now, updates, strategy, create_backups, k) ==
    Only({ update_test_file(
               before.test_file, before.new_file, before.backups, now,
               updates[k].requirement, strategy, updates[k].severity,
               updates[k].new_version, create_backups, updates[k].io) :
           before \in { IF k = 1 THEN fs
                        ELSE Only({ [test_file |-> o.test_file,
                                     new_file |-> o.new_file,
                                     backups |-> o.backups] :
                                o \in {UpdateAlone(fs, now, updates, strategy,
                                                   create_backups, k - 1)} }) } })

\* C15: update_multiple_tests returns exactly one UpdateResult per update
\* spec, in input order: the k-th result is the result of applying the
\* k-th update to the files as the updates before it left them, whether
\* those succeeded or failed, and the files after the batch are the files
\* after the last update
C15_OneResultPerUpdate ==
    [][batch_results = None /\ batch_results' # None =>
        \E call \in {batch_results'[1]} :
            /\ Len(call.results) = Len(call.updates)
            /\ \A k \in 1..Len(call.updates) :
                  \E alone \in {UpdateAlone(
                        [test_file |-> test_file, new_file |-> new_file,
                         backups |-> backups],
                        clock, call.updates, call.strategy,
                        call.create_backups, k)} :
                    /\ call.results[k] = alone.result
                    /\ k = Len(call.updates) =>
                          /\ test_file' = alone.test_file
                          /\ new_file' = alone.new_file
                          /\ backups' = alone.backups]_vars

\* C15 witness: a batch whose first update failed and whose second update
\* was applied to the test file
C15_Witness ==
    /\ batch_results # None
    /\ Len(batch_results[1].updates) = 2
    /\ ~batch_results[1].results[1].success
    /\ batch_results[1].results[1].error_message # None
    /\ batch_results[1].results[2].success
    /\ batch_results[1].results[2].strategy_used = "surgical"
    /\ BlockOf(test_file, "R1") # None
    /\ BlockOf(test_file, "R1")[1].metadata.version = 2

\* the strategy a hybrid update is to execute for a severity
ExpectedStrategy(severity) ==
    IF severity = "major" THEN "side_by_side" ELSE "surgical"

\* C11: an update asked for with the hybrid strategy does what the surgical
\* update does when the severity is none, minor or moderate and what the
\* side_by_side update does when it is major, and reports that strategy;
\* with severity major the test file is left as it was.
C11_HybridFollowsSeverity ==
    [][\A requirement \in StrategyPool, severity \in Severities,
          new_version \in 2..MaxVersion, create_backups \in BOOLEAN,
          io \in IOOutcomes :
            UpdaterUpdateTestFile(requirement, "hybrid", severity,
                                  new_version, create_backups, io)
            => /\ UpdaterUpdateTestFile(requirement,
                                        ExpectedStrategy(severity),
                                        "moderate", new_version,
                                        create_backups, io)
               /\ update_result'[1].strategy_used = ExpectedStrategy(severity)
               /\ severity = "major" => test_file' = test_file]_vars

\* a side_by_side update, as hybrid runs it for a major change, has left a
\* file with custom code alone and written the file beside it
C11_Witness ==
    /\ update_result # None
    /\ update_result[1].strategy_used = "side_by_side"
    /\ update_result[1].success
    /\ BlockOf(test_file, "R1") # None
    /\ has_custom_code(BlockOf(test_file, "R1")[1])
    /\ new_file # None

\* C12: a side_by_side update leaves the test file and the backups as they
\* were and returns no backup_path; when it succeeds, the regenerated block
\* is in the file whose name is the test file's name followed by ".new", and
\* that is the file_path of the result.
C12_SideBySideLeavesOriginal ==
    [][\A requirement \in StrategyPool, new_version \in 2..MaxVersion,
          create_backups \in BOOLEAN, io \in IOOutcomes :
            UpdaterUpdateTestFile(requirement, "side_by_side", "moderate",
                                  new_version, create_backups, io)
            => /\ test_file' = test_file
               /\ backups' = backups
               /\ update_result'[1].backup_path = None
               /\ update_result'[1].success
                    => /\ new_file' # None
                       /\ new_file'[1].path = TestFilePath \o <<".new">>
                       /\ new_file'[1].lines =
                            update_metadata_in_code(
                                generate_test_for_requirement(requirement),
                                compute_requirement_hash(requirement),
                                new_version, clock)
                       /\ update_result'[1].file_path = new_file'[1].path
                       /\ new_file'[1].path # TestFilePath]_vars

\* a side_by_side update with backups enabled has succeeded on an existing
\* test file
C12_Witness ==
    /\ update_result # None
    /\ update_result[1].strategy_used = "side_by_side"
    /\ update_result[1].success
    /\ update_result[1].file_path = <<"test_a", ".py", ".new">>
    /\ test_file.exists
    /\ new_file # None
    /\ new_file[1].lines # <<>>

\* C13: a successful surgical update of R in a file of several blocks
\* leaves the lines before the start_line of R's block and the lines after
\* its end_line as they were, with the merged block between them.
C13_OnlyTargetBlockChanges ==
    [][\A requirement \in UpdatePool :
        LET tests == parse_file(test_file)
            old == find_target_test(tests, IdOrName(requirement))
            before == test_file.lines
            after == test_file'.lines
        IN  ( /\ \E new_version \in 2..MaxVersion, create_backups \in BOOLEAN :
                    SurgicalUpdate(requirement, new_version, create_backups)
              /\ Len(tests) > 1
              /\ old # None
              /\ update_result'[1].success )
            => /\ Len(after) = Len(before)
                      - (old[1].end_line - old[1].start_line + 1)
                      + update_result'[1].lines_updated
               /\ Slice(after, 0, old[1].start_line)
                      = Slice(before, 0, old[1].start_line)
               /\ Slice(after,
                        old[1].start_line + update_result'[1].lines_updated,
                        Len(after))
                      = Slice(before, old[1].end_line + 1, Len(before))]_vars


\* a requirement for which a test function is generated (it has no nested
\* requirement) and that has a constraint without expression to transpile:
\* a require constraint, or an assume constraint beside attributes
UntranspilableRequirement(requirement) ==
    /\ requirement.nested_requirements = <<>>
    /\ \E i \in 1..Len(requirement.constraints) :
           /\ requirement.constraints[i].expression = ""
           /\ \/ requirement.constraints[i].kind = "require"
              \/ /\ requirement.constraints[i].kind = "assume"
                 /\ requirement.attributes # <<>>

FailedResult(result) ==
    /\ ~result.success
    /\ result.error_message # None
    /\ result.error_message # Some("")

\* what C14 says of one call with backups enabled when the steps in
\* FailingSteps are those that fail: a failed backup copy changes neither
\* the success of the update nor the file it writes and leaves backup_path
\* empty; a failed step gives a failed result with a message.
BackupIsSoftAndFailuresAreReported(requirement, strategy, new_version, io, step_fails) ==
    UpdaterUpdateTestFile(requirement, strategy, "moderate", new_version,
                          TRUE, io)
    => /\ step_fails => FailedResult(update_result'[1])
       /\ ~io.backup_ok
            => LET proceeds == update_test_file(
                       test_file, new_file, backups, clock, requirement,
                       strategy, "moderate", new_version, TRUE, IOWorks)
               IN  /\ update_result'[1].success = proceeds.result.success
                   /\ test_file' = proceeds.test_file
                   /\ update_result'[1].backup_path = None
                   /\ backups' = backups

C2_SurgicalKeepsCustomCode ==
    [][\A requirement \in UpdatePool :
        LET old == BlockOf(test_file, IdOrName(requirement))
            new == BlockOf(test_file', IdOrName(requirement))
        IN  ( /\ \E new_version \in 2..MaxVersion, create_backups \in BOOLEAN :
                    SurgicalUpdate(requirement, new_version, create_backups)
              /\ old # None
              /\ has_custom_code(old[1])
              /\ update_result'[1].success )
            => /\ update_result'[1].lines_preserved
                      = Len(get_custom_code(old[1]))
               /\ new # None
               /\ get_custom_code(new[1]) = get_custom_code(old[1])]_vars

HasState(m) == managers[m] # None

\* C3 as stated: over the operations of any managers on the state directory,
\* sync_count never decreases, in a manager's state and in the saved
\* document, and it changes only by the step of mark_synced, which adds 1.
C3_SyncCountOnlyGrowsByOne ==
    [][/\ \A m \in Managers :
            (HasState(m) /\ HasState(m)') =>
                \/ managers[m][1].sync_count' = managers[m][1].sync_count
                \/ managers[m][1].sync_count' = managers[m][1].sync_count + 1
       /\ (state_file.valid /\ state_file.valid') =>
                \/ state_file.doc.sync_count' = state_file.doc.sync_count
                \/ state_file.doc.sync_count' = state_file.doc.sync_count + 1
      ]_vars

\* the manager holds the sync_count of the saved document
Current(m) ==
    /\ HasState(m)
    /\ state_file.valid
    /\ managers[m][1].sync_count = state_file.doc.sync_count

\* a step of manager m
StepOf(m) ==
    \/ Initialize(m)
    \/ Load(m)
    \/ Save(m)
    \/ \E id \in TrackedIds : UpdateRequirement(m, id, "hash1", 1)
    \/ \E f \in TestFiles : UpdateTestFile(m, f, <<"R1">>)
    \/ MarkSynced(m)
    \/ \E ids \in SUBSET TrackedIds : CleanupStale(m, ids)

\* C3 amended: for a manager that holds the sync_count of the saved document
\* (it loaded or saved it and no other manager wrote a different count
\* since), every operation of that manager keeps the sync_count of its state
\* and of the saved document, except mark_synced, which adds exactly 1 to
\* both; so the count never decreases under that manager's operations.
C3_CurrentManagerCountsUp ==
    [][\A m \in Managers :
          (Current(m) /\ StepOf(m)) =>
              LET c == managers[m][1].sync_count
              IN  /\ HasState(m)' /\ state_file.valid'
                  /\ managers[m][1].sync_count' = state_file.doc.sync_count'
                  /\ IF MarkSynced(m)
                     THEN managers[m][1].sync_count' = c + 1
                     ELSE managers[m][1].sync_count' = c
      ]_vars

\* a manager that initialised the directory has synced twice, and the saved
\* document holds its count
C3_Witness ==
    \E m \in Managers :
        /\ Current(m)
        /\ managers[m][1].sync_count >= 2
        /\ \A o \in Managers \ {m} : ~HasState(o)

----------------------------------------------------------------------------
(* Properties of detect_changes *)

\* the requirement ids of a bucket of the report
Ids(bucket) == {bucket[i].requirement_id : i \in DOMAIN bucket}

IdsOf(requirements) == {requirements[i].id : i \in DOMAIN requirements}

UniqueKeys(requirements) ==
    \A i, j \in DOMAIN requirements :
        requirements[i].id = requirements[j].id => i = j

\* the requirement of a list that has the id k
WithId(requirements, k) ==
    requirements[CHOOSE i \in DOMAIN requirements : requirements[i].id = k]

AttrNameSet(r) == {r.attributes[i].name : i \in DOMAIN r.attributes}

\* the key the specification gives a requirement: its id, or its name when
\* it has no id
KeyOrName(r) == IF r.id = "" THEN r.name ELSE r.id

KeysOrNames(requirements) ==
    {KeyOrName(requirements[i]) : i \in DOMAIN requirements}

\* C1: with unique keys in old and in new, the four buckets partition the ids
\* of old and new: ids only in new are added, ids only in old are deleted,
\* common ids are modified when the content hashes differ and unchanged when
\* they are equal; no id is in two buckets or twice in one, none is missing.
C1_BucketsPartitionIds ==
    (report # None /\ UniqueKeys(old_requirements) /\ UniqueKeys(new_requirements)) =>
        LET r == report[1]
            old_ids == IdsOf(old_requirements)
            new_ids == IdsOf(new_requirements)
            common == old_ids \cap new_ids
            differ(k) ==
                compute_requirement_hash(WithId(old_requirements, k))
                    # compute_requirement_hash(WithId(new_requirements, k))
        IN  /\ Ids(r.added) = new_ids \ old_ids
            /\ Ids(r.deleted) = old_ids \ new_ids
            /\ Ids(r.modified) = {k \in common : differ(k)}
            /\ Ids(r.unchanged) = {k \in common : ~differ(k)}
            /\ Len(r.added) = Cardinality(Ids(r.added))
            /\ Len(r.deleted) = Cardinality(Ids(r.deleted))
            /\ Len(r.modified) = Cardinality(Ids(r.modified))
            /\ Len(r.unchanged) = Cardinality(Ids(r.unchanged))
            /\ Ids(r.added) \cap Ids(r.deleted) = {}
            /\ Ids(r.added) \cap Ids(r.modified) = {}
            /\ Ids(r.added) \cap Ids(r.unchanged) = {}
            /\ Ids(r.deleted) \cap Ids(r.modified) = {}
            /\ Ids(r.deleted) \cap Ids(r.unchanged) = {}
            /\ Ids(r.modified) \cap Ids(r.unchanged) = {}
            /\ total_requirements(r) = Cardinality(old_ids \cup new_ids)

\* a report with an added, a deleted and a modified requirement
C1_Witness ==
    /\ report # None
    /\ UniqueKeys(old_requirements) /\ UniqueKeys(new_requirements)
    /\ report[1].added # <<>>
    /\ report[1].deleted # <<>>
    /\ report[1].modified # <<>>

\* C5: a requirement without id is keyed by its name: the report tracks the
\* new requirements under {id, or name when the id is missing}, and the old
\* ones likewise, so two requirements without id and with different names
\* are two entries and a requirement without id is matched by its name.
C5_MissingIdKeyedByName ==
    report # None =>
        LET r == report[1]
        IN  /\ Ids(r.added) \cup Ids(r.modified) \cup Ids(r.unchanged)
                   = KeysOrNames(new_requirements)
            /\ Ids(r.deleted) \cup Ids(r.modified) \cup Ids(r.unchanged)
                   = KeysOrNames(old_requirements)

\* C10: an id only in new is reported as added with severity major, and an
\* id only in old as deleted with severity major.
C10_AddedDeletedAreMajor ==
    report # None =>
        LET r == report[1]
            old_ids == IdsOf(old_requirements)
            new_ids == IdsOf(new_requirements)
        IN  /\ \A k \in new_ids \ old_ids :
                  \E i \in DOMAIN r.added :
                      r.added[i] = [requirement_id |-> k, change_type |-> "added",
                                    severity |-> "major"]
            /\ \A k \in old_ids \ new_ids :
                  \E i \in DOMAIN r.deleted :
                      r.deleted[i] = [requirement_id |-> k, change_type |-> "deleted",
                                      severity |-> "major"]
            /\ \A i \in DOMAIN r.added : r.added[i].severity = "major"
            /\ \A i \in DOMAIN r.deleted : r.deleted[i].severity = "major"

\* a report with an added and a deleted requirement
C10_Witness ==
    /\ report # None
    /\ report[1].added # <<>>
    /\ report[1].deleted # <<>>

----------------------------------------------------------------------------
(* Properties of the severity of a modified requirement (SpecSeverity: old *)
(* and new hold one requirement each, with the same id)                    *)

OldReq == old_requirements[1]

NewReq == new_requirements[1]

Compared == report # None /\ Len(old_requirements) = 1 /\ Len(new_requirements) = 1

\* the report says: modified, with this severity, and nothing else
ModifiedWith(severity) ==
    /\ report[1].modified = <<[requirement_id |-> NewReq.id,
                               change_type |-> "modified",
                               severity |-> severity]>>
    /\ report[1].added = <<>>
    /\ report[1].deleted = <<>>
    /\ report[1].unchanged = <<>>

SameLists ==
    /\ OldReq.attributes = NewReq.attributes
    /\ OldReq.constraints = NewReq.constraints
    /\ OldReq.nested_requirements = NewReq.nested_requirements

\* C6 as stated: a requirement whose new version differs from the old one
\* only in documentation and/or name is reported as modified, severity minor.
C6_DocOrNameOnlyIsMinor ==
    (Compared /\ SameLists /\ OldReq # NewReq) => ModifiedWith("minor")

\* C6 amended: a requirement whose new version differs from the old one only
\* in name, or in documentation once a missing documentation is read as the
\* empty text, is reported as modified, severity minor.
C6_DocOrNameOnlyIsMinor_Amended ==
    (/\ Compared
     /\ SameLists
     /\ \/ OldReq.name # NewReq.name
        \/ OrEmpty(OldReq.documentation) # OrEmpty(NewReq.documentation))
        => ModifiedWith("minor")

\* a documentation-only change of a requirement with an attribute
C6_Witness ==
    /\ Compared
    /\ SameLists
    /\ OldReq.name = NewReq.name
    /\ OldReq.documentation = None
    /\ NewReq.documentation = Some("d")
    /\ OldReq.attributes # <<>>
    /\ ModifiedWith("minor")

\* C7: a requirement whose set of attribute names differs between old and
\* new is reported as modified, severity major, whatever else changed.
C7_AttrNamesChangedIsMajor ==
    (Compared /\ AttrNameSet(OldReq) # AttrNameSet(NewReq)) => ModifiedWith("major")

\* an attribute was added, and the name and the documentation changed too
C7_Witness ==
    /\ Compared
    /\ AttrNameSet(OldReq) = {}
    /\ AttrNameSet(NewReq) = {"h"}
    /\ OldReq.name # NewReq.name
    /\ OldReq.documentation # NewReq.documentation
    /\ ModifiedWith("major")

StructureChanged ==
    compute_structure_hash(OldReq) # compute_structure_hash(NewReq)

\* C8: a modified requirement whose structure hash changed while the
\* attribute-name set is the same has severity major if the number of
\* constraints differs and moderate otherwise.
C8_SameAttrNamesSeverity ==
    (/\ Compared
     /\ report[1].modified # <<>>
     /\ StructureChanged
     /\ AttrNameSet(OldReq) = AttrNameSet(NewReq))
        => ModifiedWith(IF Len(OldReq.constraints) # Len(NewReq.constraints)
                        THEN "major" ELSE "moderate")

\* height in [150, 200] becomes height in [140, 210]: moderate
C8_Witness ==
    /\ Compared
    /\ Len(OldReq.attributes) = 1
    /\ Len(NewReq.attributes) = 1
    /\ OldReq.attributes[1].name = "h"
    /\ NewReq.attributes[1].name = "h"
    /\ OldReq.attributes[1].min_value = Some(150)
    /\ NewReq.attributes[1].min_value = Some(140)
    /\ OldReq.constraints = NewReq.constraints
    /\ ModifiedWith("moderate")

\* C9: a modified requirement whose structure hash, name and documentation
\* are unchanged (the content hash differs through a description or the
\* nested requirements) has severity moderate.
C9_DescriptionOnlyIsModerate ==
    (/\ Compared
     /\ report[1].modified # <<>>
     /\ ~StructureChanged
     /\ OldReq.name = NewReq.name
     /\ OldReq.documentation = NewReq.documentation)
        => ModifiedWith("moderate")

----------------------------------------------------------------------------
(* Properties of compute_requirement_hash (SpecHash) *)

\* C4: the hash of a requirement equals the hash of every requirement got
\* from it by reordering its attributes and its constraints.
C4_HashIgnoresListOrder ==
    fp_result # None => fp_result[1][1] = fp_result[1][2]

----------------------------------------------------------------------------
(* SpecParse: TestFileParser.parse_file on test files made of blocks, some *)
(* of them malformed, and on blocks whose region markers are unbalanced    *)

MaxBlocks == 3

MaxBodyLines == 3

\* a block as the generator writes it
GoodBlock(requirement_id, name, custom) ==
    << METADATA_START, MetaLine("requirement_id", requirement_id),
       MetaLine("version", "1"), METADATA_END, DecoLine("1"), DefLine(name),
       GENERATED_START, CodeLine("assert"), GENERATED_END,
       CUSTOM_START, CodeLine(custom), CUSTOM_END >>

\* a block whose metadata has no requirement_id
NoIdBlock ==
    << METADATA_START, MetaLine("requirement_name", "A"), METADATA_END,
       DefLine("n"), GENERATED_START, CodeLine("assert"), GENERATED_END >>

\* a block without a test function
NoDefBlock ==
    << METADATA_START, MetaLine("requirement_id", "R3"), METADATA_END,
       GENERATED_START, CodeLine("assert"), GENERATED_END >>

ParseBlocks ==
    { GoodBlock("R1", "a", "u1"), GoodBlock("R2", "b", "u2"), NoIdBlock,
      NoDefBlock }

\* the lines a block can have below its test function
RegionTokens ==
    { GENERATED_START, GENERATED_END, CUSTOM_START, CUSTOM_END, CodeLine("x") }

MarkerBlock(body) ==
    << METADATA_START, MetaLine("requirement_id", "R1"), METADATA_END,
       DefLine("a") >> \o body

ParseFiles ==
    { [exists |-> TRUE, lines |-> preamble \o Concat(blocks)] :
        preamble \in {<<>>, <<CodeLine("import")>>},
        blocks \in SeqsUpTo(ParseBlocks, MaxBlocks) }
    \cup
    { [exists |-> TRUE, lines |-> MarkerBlock(body) \o next] :
        body \in SeqsUpTo(RegionTokens, MaxBodyLines),
        next \in {<<>>, GoodBlock("R2", "b", "u2")} }
    \cup {MissingFile}

InitParse ==
    /\ DetectIdle
    /\ HashIdle
    /\ StateIdle
    /\ test_file \in ParseFiles
    /\ backups = NoBackups
    /\ clock = 0
    /\ update_result = None
    /\ new_file = None
    /\ batch_results = None
    /\ parse_result = None

NextParse == ParseFile

SpecParse == InitParse /\ [][NextParse]_vars

\* the lines that open a block, the last line of the block that a line
\* opens, and the line that closes its metadata
BlockStarts(lines) ==
    {i \in 0..(Len(lines) - 1) : At(lines, i) = METADATA_START}

BlockEnd(lines, i) ==
    IF \E j \in BlockStarts(lines) : j > i
    THEN Min({j \in BlockStarts(lines) : j > i}) - 1
    ELSE Len(lines) - 1

MetadataEnd(lines, i) ==
    Min({j \in (i + 1)..Len(lines) :
            j = Len(lines) \/ At(lines, j) = METADATA_END})

\* the requirement ids written in the metadata of the block at i
IdsOfBlock(lines, i) ==
    { At(lines, j).val : j \in { x \in (i + 1)..(MetadataEnd(lines, i) - 1) :
          At(lines, x).kind = "meta" /\ At(lines, x).key = "requirement_id" } }

\* the test functions declared in the block at i
DefsOfBlock(lines, i) ==
    { j \in MetadataEnd(lines, i)..BlockEnd(lines, i) :
          At(lines, j).kind = "def" }

WellFormedBlock(lines, i) ==
    /\ MetadataEnd(lines, i) <= BlockEnd(lines, i)
    /\ IdsOfBlock(lines, i) # {}
    /\ DefsOfBlock(lines, i) # {}

\* no test function declaration is found for the block at i
NoDeclarationFound(lines, i) ==
    \A j \in MetadataEnd(lines, i)..(Len(lines) - 1) :
        j < MetadataEnd(lines, i) + LookAhead => At(lines, j).kind # "def"

Returned(tests, i) == \E k \in 1..Len(tests) : tests[k].start_line = i

\* C19: a block whose metadata lacks requirement_id, or for which no test
\* function declaration is found, is left out of the result of the parse,
\* and every well-formed block of the file, before or after it, is
\* returned with its own requirement_id and its own test function, in the
\* order of the file
C19_MalformedBlockIsSkipped ==
    parse_result # None /\ test_file.exists =>
        \E tests \in {parse_result[1]}, lines \in {test_file.lines} :
            /\ \A i \in BlockStarts(lines) :
                  /\ IdsOfBlock(lines, i) = {} => ~Returned(tests, i)
                  /\ NoDeclarationFound(lines, i) => ~Returned(tests, i)
                  /\ WellFormedBlock(lines, i) =>
                        \E k \in 1..Len(tests) :
                            /\ tests[k].start_line = i
                            /\ tests[k].end_line = BlockEnd(lines, i)
                            /\ tests[k].metadata.requirement_id
                                    \in IdsOfBlock(lines, i)
                            /\ \E d \in DefsOfBlock(lines, i) :
                                  tests[k].function_name = At(lines, d).key
            /\ \A k \in 1..(Len(tests) - 1) :
                  tests[k].start_line < tests[k + 1].start_line

\* C19 witness: a file of three blocks, the second without requirement_id,
\* was parsed into the two tests of the first and of the third block
C19_Witness ==
    /\ parse_result # None
    /\ Len(parse_result[1]) = 2
    /\ parse_result[1][1].metadata.requirement_id = "R1"
    /\ parse_result[1][2].metadata.requirement_id = "R2"
    /\ \E i \in BlockStarts(test_file.lines) :
          /\ IdsOfBlock(test_file.lines, i) = {}
          /\ parse_result[1][1].start_line < i
          /\ i < parse_result[1][2].start_line

\* the regions the markers of lines current..test_end open: a START
\* outside a region opens a region up to the next END of its type, or up
\* to the end of the file
RECURSIVE RegionsOpened(_, _, _)
RegionsOpened(lines, current, test_end) ==
    IF current > test_end
    THEN [generated |-> <<>>, custom |-> <<>>]
    ELSE IF At(lines, current) = GENERATED_START
    THEN Only({ [RegionsOpened(lines, b.end + 1, test_end)
                    EXCEPT !.generated =
                        <<ProtectedRegion("GENERATED", current, b.end,
                                          b.content)>> \o @] :
                  b \in {extract_block(lines, current, GENERATED_END)} })
    ELSE IF At(lines, current) = CUSTOM_START
    THEN Only({ [RegionsOpened(lines, b.end + 1, test_end)
                    EXCEPT !.custom =
                        <<ProtectedRegion("CUSTOM", current, b.end,
                                          b.content)>> \o @] :
                  b \in {extract_block(lines, current, CUSTOM_END)} })
    ELSE RegionsOpened(lines, current + 1, test_end)

\* C20: within a parsed block, each GENERATED-START or CUSTOM-START marker
\* line outside a region opens a region that ends at the next END marker
\* of the same type, or at the end of the file when there is none; its
\* content is the lines strictly between; the regions are recorded in
\* document order
C20_EachStartOpensRegion ==
    parse_result # None /\ test_file.exists =>
        \A k \in 1..Len(parse_result[1]) :
            \E t \in {parse_result[1][k]} :
            \E opened \in {RegionsOpened(test_file.lines,
                                MetadataEnd(test_file.lines, t.start_line),
                                t.end_line)} :
                /\ t.generated_regions = opened.generated
                /\ t.custom_regions = opened.custom

----------------------------------------------------------------------------
(* SpecCompare: compare_fingerprints on every pair of fingerprints: those  *)
(* of requirements, and those whose three hashes were not computed from    *)
(* one requirement (a fingerprint read back from a state file can be any)  *)

\* the requirements whose hashes make the fingerprints
CompareBase ==
    { Requirement("R1", "A", None, <<>>, <<>>, <<>>),
      Requirement("R1", "B", None, <<>>, <<>>, <<>>),
      Requirement("R1", "A", Some("d"), <<h150>>, <<>>, <<>>),
      Requirement("R1", "A", None, <<h150>>, <<>>, <<>>),
      Requirement("R1", "A", None, <<h140>>, <<>>, <<>>) }

FingerprintPool ==
    { [requirement_id |-> "R1",
       content_hash |-> compute_requirement_hash(c),
       metadata_hash |-> compute_metadata_hash(c),
       structure_hash |-> compute_structure_hash(t)] :
        c \in CompareBase, t \in CompareBase }

InitCompare ==
    /\ DetectIdle
    /\ StateIdle
    /\ UpdateIdle
    /\ fp_result = None
    /\ fp_input \in FingerprintPool \X FingerprintPool

NextCompare == CompareFingerprints

SpecCompare == InitCompare /\ [][NextCompare]_vars

\* C21: compare_fingerprints returns content_changed exactly when the
\* content hashes differ, metadata_only implies that structure_changed is
\* false, and the three flags are false for two fingerprints of the same
\* requirement
C21_CompareFlags ==
    fp_result # None =>
        /\ fp_result[1].content_changed
                = (fp_input[1].content_hash # fp_input[2].content_hash)
        /\ fp_result[1].metadata_only => ~fp_result[1].structure_changed
        /\ \A r \in CompareBase :
              (fp_input[1] = create_fingerprint(r)
                  /\ fp_input[2] = create_fingerprint(r)) =>
                    /\ ~fp_result[1].content_changed
                    /\ ~fp_result[1].metadata_only
                    /\ ~fp_result[1].structure_changed

\* C21 witness: two fingerprints with different content hashes and equal
\* structure hashes were compared and only the metadata is flagged
C21_Witness ==
    /\ fp_result # None
    /\ fp_input[1].content_hash # fp_input[2].content_hash
    /\ fp_input[1].structure_hash = fp_input[2].structure_hash
    /\ fp_result[1].metadata_only
    /\ fp_result[1].content_changed

----------------------------------------------------------------------------
(* SpecFingerprint: create_fingerprint on a requirement and on a copy of   *)
(* it in which one field of the metadata was replaced                      *)

\* a requirement with the fields of RequirementMetadata that say where it
\* comes from and who it concerns (extractor/models.py)
WithOrigin(r, stakeholders, actors, source_file, line_number) ==
    [id |-> r.id, name |-> r.name, documentation |-> r.documentation,
     attributes |-> r.attributes, constraints |-> r.constraints,
     nested_requirements |-> r.nested_requirements,
     stakeholders |-> stakeholders, actors |-> actors,
     source_file |-> source_file, line_number |-> line_number]

FingerprintBase ==
    { WithOrigin(r, <<>>, <<>>, Some("a.sysml"), Some(1)) :
        r \in ReqsWith({"R1"}, MaxItems, MaxItems, MaxItems) }

\* the copies of r that differ from it in one field of the metadata
ChangedCopies(r) ==
    { [r EXCEPT !.name = n] : n \in Names \ {r.name} }
    \cup { [r EXCEPT !.documentation = d] : d \in Docs \ {r.documentation} }
    \cup { [r EXCEPT !.id = "R2"], [r EXCEPT !.source_file = Some("b.sysml")],
           [r EXCEPT !.source_file = None], [r EXCEPT !.line_number = Some(2)],
           [r EXCEPT !.stakeholders = <<"s1">>],
           [r EXCEPT !.actors = <<"a1">>] }

InitFingerprint ==
    /\ DetectIdle
    /\ StateIdle
    /\ UpdateIdle
    /\ fp_result = None
    /\ \E r \in FingerprintBase : \E c \in ChangedCopies(r) :
          fp_input = <<r, c>>

NextFingerprint == CreateFingerprints

SpecFingerprint == InitFingerprint /\ [][NextFingerprint]_vars

\* the two requirements differ, and in the fields F only
DiffersOnlyIn(F) ==
    /\ fp_input[1] # fp_input[2]
    /\ \A f \in DOMAIN fp_input[1] \ F : fp_input[1][f] = fp_input[2][f]

\* what the two fingerprints tell of the change
MetadataHashesDiffer ==
    /\ fp_result[1][1].content_hash # fp_result[1][2].content_hash
    /\ fp_result[1][1].metadata_hash # fp_result[1][2].metadata_hash
    /\ fp_result[1][1].structure_hash = fp_result[1][2].structure_hash

NoHashDiffers ==
    /\ fp_result[1][1].content_hash = fp_result[1][2].content_hash
    /\ fp_result[1][1].metadata_hash = fp_result[1][2].metadata_hash
    /\ fp_result[1][1].structure_hash = fp_result[1][2].structure_hash

\* C22 (as claimed): replacing only the name or only the documentation by
\* a different value changes content_hash and metadata_hash and leaves
\* structure_hash unchanged; changing only the id, the source location or
\* the stakeholder or actor lists changes none of the three hashes
C22_HashesCoverNameAndDoc ==
    fp_result # None =>
        /\ DiffersOnlyIn({"name"}) => MetadataHashesDiffer
        /\ DiffersOnlyIn({"documentation"}) => MetadataHashesDiffer
        /\ DiffersOnlyIn({"id", "source_file", "line_number", "stakeholders",
                          "actors"}) => NoHashDiffers

\* C22 (amended): as claimed, where a documentation that is missing counts
\* as the empty text: replacing a missing documentation by the empty text,
\* or the reverse, changes none of the three hashes
C22_HashesCoverNameAndDoc_Amended ==
    fp_result # None =>
        /\ DiffersOnlyIn({"name"}) => MetadataHashesDiffer
        /\ DiffersOnlyIn({"documentation"}) =>
              IF OrEmpty(fp_input[1].documentation)
                    # OrEmpty(fp_input[2].documentation)
              THEN MetadataHashesDiffer
              ELSE NoHashDiffers
        /\ DiffersOnlyIn({"id", "source_file", "line_number", "stakeholders",
                          "actors"}) => NoHashDiffers

\* C22 witness: the fingerprints of a requirement with an attribute and of
\* its copy under another name differ in content and metadata hash only
C22_Witness ==
    /\ fp_result # None
    /\ DiffersOnlyIn({"name"})
    /\ fp_input[1].attributes # <<>>
    /\ MetadataHashesDiffer

----------------------------------------------------------------------------
\* C23: after a successful full_regen or surgical update of requirement R
\* with new_version v, the written file parses to a block for R whose
\* metadata has version v and content_hash compute_requirement_hash(R),
\* and the returned UpdateResult has version_new v
C23_UpdateStampsVersionAndHash ==
    [][\A requirement \in StrategyPool, strategy \in {"full_regen", "surgical"},
          new_version \in 2..MaxVersion, create_backups \in BOOLEAN,
          io \in IOOutcomes :
            ( /\ UpdaterUpdateTestFile(requirement, strategy, "moderate",
                                       new_version, create_backups, io)
              /\ update_result'[1].success )
            => \E block \in {BlockOf(test_file', IdOrName(requirement))} :
                /\ update_result'[1].version_new = new_version
                /\ block # None
                /\ IF block = None THEN FALSE
                   ELSE /\ block[1].metadata.version = new_version
                        /\ block[1].metadata.content_hash
                              = Some(compute_requirement_hash(requirement))]_vars

\* C24: total_requirements of the report returned by detect_changes(old,
\* new) is the number of requirements of the new set
C24_TotalCountsNewSet ==
    report # None =>
        total_requirements(report[1])
            = Cardinality(DOMAIN ById(new_requirements))

----------------------------------------------------------------------------
(* cli.py: the sync command *)

\* str(path) of a test file path kept as its stem and its suffixes
RECURSIVE PathText(_)
PathText(file_path) ==
    IF file_path = <<>> THEN ""
    ELSE Head(file_path) \o PathText(Tail(file_path))

\* SyncReport.total_changes
total_changes(r) == Len(r.added) + Len(r.deleted) + Len(r.modified)

\* SyncState.get_requirement
get_requirement(st, requirement_id) ==
    IF requirement_id \in DOMAIN st.requirements
    THEN Some(st.requirements[requirement_id])
    ELSE None

\* the loop of _run_sync over report.modified that builds the update
\* specs.  A requirement the state has no test file for is looked up
\* through change.requirement_name, an attribute RequirementChange does
\* not have: the AttributeError ends the run.  A requirement whose test
\* file is missing, or that is not among the new requirements, is skipped
RECURSIVE collect_updates(_, _, _, _, _)
collect_updates(changes, st, new_reqs, file, io) ==
    IF changes = <<>> THEN [raised |-> FALSE, updates |-> <<>>]
    ELSE LET change == Head(changes)
             req_state == get_requirement(st, change.requirement_id)
             found == {i \in 1..Len(new_reqs) :
                          IdOrName(new_reqs[i]) = change.requirement_id}
         IN  IF req_state = None THEN [raised |-> TRUE, updates |-> <<>>]
             ELSE IF req_state[1].test_file = None
             THEN [raised |-> TRUE, updates |-> <<>>]
             ELSE Only({
                 IF \/ req_state[1].test_file[1] # Path(PathText(TestFilePath))
                    \/ ~file.exists
                    \/ found = {}
                 THEN rest
                 ELSE [rest EXCEPT !.updates =
                          <<[test_file |-> req_state[1].test_file[1],
                             requirement |-> new_reqs[Min(found)],
                             severity |-> change.severity,
                             new_version |-> req_state[1].version + 1,
                             io |-> io]>> \o @] :
                 rest \in {collect_updates(Tail(changes), st, new_reqs,
                                           file, io)} })

\* the update spec _run_sync takes for a result: the position of the first
\* update whose test file is the result's file path, or 0
first_update_of_file(updates, result) ==
    LET S == {i \in 1..Len(updates) :
                 updates[i].test_file = Path(PathText(result.file_path))}
    IN  IF S = {} THEN 0 ELSE Min(S)

\* the loop of _run_sync over the results, from the k-th on: each
\* successful result whose update spec is found is recorded with
\* state_mgr.update_requirement
RECURSIVE record_results(_, _, _, _)
record_results(st, updates, results, k) ==
    IF k > Len(results) THEN st
    ELSE LET result == results[k]
             u == first_update_of_file(updates, result)
             req == updates[u].requirement
             req_state ==
                 [requirement_id |-> IdOrName(req),
                  content_hash |-> compute_requirement_hash(req),
                  version |-> result.version_new,
                  test_file |-> Some(Path(PathText(result.file_path))),
                  last_updated |-> Now, has_custom_code |-> TRUE,
                  fingerprint |-> Some(create_fingerprint(req)
                      @@ [version |-> result.version_new,
                          timestamp |-> Now])]
         IN  record_results(
                 IF result.success /\ u # 0
                 THEN [st EXCEPT !.requirements =
                          DictSet(st.requirements, IdOrName(req), req_state)]
                 ELSE st,
                 updates, results, k + 1)

\* Sysml2PytestCLI._run_sync without --preview: detect the changes, open
\* the state store, update the tests of the modified requirements, record
\* the successful updates and mark the sync
RunSync(m, strategy, create_backups, io) ==
    /\ report = None
    /\ managers[m] = None
    /\ \E rep \in {detect_changes(old_requirements, new_requirements)} :
        /\ report' = Some(rep)
        /\ IF total_changes(rep) = 0
           THEN UNCHANGED <<state_vars, update_vars>>
           ELSE \E st \in {IF state_file.exists THEN Loaded ELSE FreshState} :
                \E built \in {collect_updates(rep.modified, st,
                                  new_requirements, test_file, io)} :
                  IF built.raised \/ built.updates = <<>>
                  THEN /\ managers' = [managers EXCEPT ![m] = Some(st)]
                       /\ state_file' = IF state_file.exists THEN state_file
                                        ELSE SavedFile(st)
                       /\ UNCHANGED update_vars
                  ELSE \E out \in {update_multiple_tests(
                              [test_file |-> test_file, new_file |-> new_file,
                               backups |-> backups],
                              clock, built.updates, strategy, create_backups)} :
                       \E recorded \in {record_results(st, built.updates,
                                                       out.results, 1)} :
                       \E marked \in {[recorded EXCEPT
                                          !.last_sync = Some(Now),
                                          !.sync_count = @ + 1]} :
                         /\ managers' = [managers EXCEPT ![m] = Some(marked)]
                         /\ state_file' = SavedFile(marked)
                         /\ test_file' = out.fs.test_file
                         /\ new_file' = out.fs.new_file
                         /\ backups' = out.fs.backups
                         /\ batch_results' =
                               Some([updates |-> built.updates,
                                     strategy |-> strategy,
                                     create_backups |-> create_backups,
                                     results |-> out.results])
                         /\ UNCHANGED <<clock, update_result, parse_result>>
    /\ UNCHANGED <<old_requirements, new_requirements, fp_vars>>

\* the requirements of a sync run: R1 and R2, whose tests stand in one file
SyncR2 == Requirement("R2", "B", None, <<h150>>, <<>>, <<>>)

EmptyRequire == [kind |-> "require", expression |-> "", description |-> None]

SyncNewLists ==
    { <<n1, n2>> :
        n1 \in {OldR1, Requirement("R1", "A", None, <<h140>>, <<>>, <<>>)},
        n2 \in {SyncR2, Requirement("R2", "B", None, <<h140>>, <<>>, <<>>),
                Requirement("R2", "B", None, <<h150>>, <<EmptyRequire>>, <<>>)} }

\* the entry of the state store for a requirement generated at version 1
\* into the test file
TrackedAt(requirement) ==
    [requirement_id |-> IdOrName(requirement),
     content_hash |-> compute_requirement_hash(requirement), version |-> 1,
     test_file |-> Some(Path(PathText(TestFilePath))), last_updated |-> Now,
     has_custom_code |-> FALSE, fingerprint |-> None]

\* the state store at the start: missing, tracking R1 only, or both
SyncStateFiles ==
    { AbsentFile,
      SavedFile([FreshState EXCEPT !.requirements =
                    DictSet(<<>>, "R1", TrackedAt(OldR1))]),
      SavedFile([FreshState EXCEPT !.requirements =
                    DictSet(DictSet(<<>>, "R1", TrackedAt(OldR1)),
                            "R2", TrackedAt(SyncR2))]) }

SyncTestFiles ==
    { MissingFile,
      [exists |-> TRUE,
       lines |-> BlockWith(OldR1, <<>>) \o BlockWith(SyncR2, <<>>)] }

InitSync ==
    /\ old_requirements = <<OldR1, SyncR2>>
    /\ new_requirements \in SyncNewLists
    /\ report = None
    /\ HashIdle
    /\ state_file \in SyncStateFiles
    /\ managers = [m \in Managers |-> None]
    /\ test_file \in SyncTestFiles
    /\ backups = NoBackups
    /\ clock = 0
    /\ update_result = None
    /\ new_file = None
    /\ batch_results = None
    /\ parse_result = None

NextSync ==
    \/ \E strategy \in Strategies, create_backups \in BOOLEAN,
          io \in {IOWorks, IOFails} :
            RunSync("m1", strategy, create_backups, io)
    \/ Tick

SpecSync == InitSync /\ [][NextSync]_vars

\* C25: at the end of a sync run the state store holds, for every
\* requirement whose update returned success, an entry with its new
\* content hash and the update's version_new, and the entries of the other
\* requirements are as before the run; for every strategy, and also when
\* several updated requirements share one test file
C25_StoreFollowsResults ==
    [][(report = None /\ report' # None) =>
        \A id \in {"R1", "R2"} :
            LET ks == IF batch_results' = None THEN {}
                      ELSE {k \in 1..Len(batch_results'[1].results) :
                              /\ batch_results'[1].results[k].success
                              /\ IdOrName(batch_results'[1].updates[k].requirement)
                                    = id}
            IN  IF ks = {} THEN get_requirement(Loaded', id) = get_requirement(Loaded, id)
                ELSE \A k \in ks :
                    /\ get_requirement(Loaded', id) # None
                    /\ get_requirement(Loaded', id)[1].content_hash
                          = compute_requirement_hash(
                                batch_results'[1].updates[k].requirement)
                    /\ get_requirement(Loaded', id)[1].version
                          = batch_results'[1].results[k].version_new]_vars

----------------------------------------------------------------------------
\* C26: with backups enabled, every backup that a full_regen or surgical
\* update of a batch created holds, at the end of the batch, the content
\* the target file had just before that update: no later update of the
\* batch overwrites an earlier backup
C26_BackupsKeepPreUpdateContent ==
    [][(batch_results = None /\ batch_results' # None) =>
        \A k \in 1..Len(batch_results'[1].results) :
            ( /\ batch_results'[1].results[k].backup_path # None
              /\ batch_results'[1].results[k].strategy_used
                    \in {"full_regen", "surgical"} )
            => \E before \in {
                   IF k = 1 THEN test_file
                   ELSE UpdateAlone(
                            [test_file |-> test_file, new_file |-> new_file,
                             backups |-> backups],
                            clock, batch_results'[1].updates,
                            batch_results'[1].strategy,
                            batch_results'[1].create_backups,
                            k - 1).test_file} :
                 backups'[batch_results'[1].results[k].backup_path[1]]
                    = Some(before.lines)]_vars

----------------------------------------------------------------------------
\* C27: whenever a surgical update returns success=false because no block
\* was parsed from the file, because the file has no block for the
\* requirement, or because of an error before the write (the generator
\* raising, the file not opening for writing), the test file after the
\* call is the test file before the call.  A write that fails after the
\* file was opened is not among these cases
C27_FailedSurgicalLeavesFile ==
    [][( /\ update_result = None
         /\ update_result' # None
         /\ update_result'[1].strategy_used = "surgical"
         /\ ~update_result'[1].success
         /\ update_result'[1].error_message
               # Some("No space left on device") )
       => test_file' = test_file]_vars

\* C27 witness: a surgical update has failed for want of a block of the
\* requirement in a file that holds another block
C27_Witness ==
    /\ update_result # None
    /\ update_result[1].strategy_used = "surgical"
    /\ ~update_result[1].success
    /\ update_result[1].error_message = Some("Test not found")
    /\ test_file.exists
    /\ parse_file(test_file) # <<>>

----------------------------------------------------------------------------
\* the generated and the custom regions of a parsed block
RegionsOf(block) == block.generated_regions \o block.custom_regions

\* C28: the blocks the parser returns have strictly increasing line spans
\* that do not overlap, each with start_line <= end_line, and every
\* generated or custom region of a block lies inside the span of its
\* block: block.start_line <= region.start_line <= region.end_line
\* <= block.end_line
C28_RegionsLieInsideBlocks ==
    parse_result # None =>
        /\ \A i \in 1..Len(parse_result[1]) :
              /\ parse_result[1][i].start_line <= parse_result[1][i].end_line
              /\ \A j \in (i + 1)..Len(parse_result[1]) :
                    parse_result[1][i].end_line < parse_result[1][j].start_line
        /\ \A i \in 1..Len(parse_result[1]) :
              \A r \in 1..Len(RegionsOf(parse_result[1][i])) :
                /\ parse_result[1][i].start_line
                      <= RegionsOf(parse_result[1][i])[r].start_line
                /\ RegionsOf(parse_result[1][i])[r].start_line
                      <= RegionsOf(parse_result[1][i])[r].end_line
                /\ RegionsOf(parse_result[1][i])[r].end_line
                      <= parse_result[1][i].end_line

----------------------------------------------------------------------------
\* C29: for every block the parser returns, the test function declaration
\* that supplies its function_name is on a line inside the block's own
\* span; a block with no declaration of its own is discarded, also when the
\* declaration of the next block is within the lookahead window
C29_FunctionDeclaredInsideBlock ==
    parse_result # None =>
        \A b \in 1..Len(parse_result[1]) :
            \E i \in parse_result[1][b].start_line..parse_result[1][b].end_line :
                /\ At(test_file.lines, i).kind = "def"
                /\ At(test_file.lines, i).key = parse_result[1][b].function_name

----------------------------------------------------------------------------
\* C30: for every strategy and every test file that holds a block for the
\* updated requirement R1, the version_old of the result of a successful
\* update is the version in the metadata of R1's own block of the file
\* before the update, also when that block is not the first of the file
C30_VersionOldIsOwnBlocks ==
    [][( /\ update_result = None
         /\ update_result' # None
         /\ update_result'[1].success
         /\ BlockOf(test_file, "R1") # None )
       => update_result'[1].version_old
             = BlockOf(test_file, "R1")[1].metadata.version]_vars

====
